---------------------------- MODULE Spec2Model ----------------------------
(***************************************************************************)
(* The HTTP request reader of libpion (src/src/HTTPRequestParser.cpp):     *)
(* the header state machine parseRequestHeaders, the form decoder          *)
(* parseURLEncoded and the callbacks readRequest / readHeaderBytes /       *)
(* readContentBytes / handleReadError that drive them from a connection.   *)
(*                                                                         *)
(* Octets are written as one-character strings ("G", "\r", ...); Ord gives *)
(* their value.  An octet string is a sequence of runs <<c, n>> (n >= 1    *)
(* copies of octet c, neighbouring runs of different octets), so that a    *)
(* field of 1,048,576 octets is one run and the ceilings of the source     *)
(* keep their values.                                                      *)
(***************************************************************************)
EXTENDS Integers, Sequences, FiniteSets, TLC

(***************************************************************************)
(* Octets                                                                  *)
(***************************************************************************)
NUL == "<NUL>"
DEL == "<DEL>"
HIGH == "<80>"
HT == "\t"
LF == "\n"
CR == "\r"
SP == " "
DQUOTE == "<QUOTE>"
BACKSLASH == "<BACKSLASH>"
BACKTICK == "<BACKTICK>"

\* The printable octets 32 (SP) to 126 (~), in order.
Printable ==
  <<
    " ", "!", DQUOTE, "#", "$", "%", "&", "'", "(", ")", "*", "+",
    ",", "-", ".", "/", "0", "1", "2", "3", "4", "5", "6", "7",
    "8", "9", ":", ";", "<", "=", ">", "?", "@", "A", "B", "C",
    "D", "E", "F", "G", "H", "I", "J", "K", "L", "M", "N", "O",
    "P", "Q", "R", "S", "T", "U", "V", "W", "X", "Y", "Z", "[",
    BACKSLASH, "]", "^", "_", BACKTICK, "a", "b", "c", "d", "e", "f", "g",
    "h", "i", "j", "k", "l", "m", "n", "o", "p", "q", "r", "s",
    "t", "u", "v", "w", "x", "y", "z", "{", "|", "}", "~"
  >>

\* The octet value of a character.
Ord(c) ==
  CASE c = NUL -> 0
    [] c = HT -> 9
    [] c = LF -> 10
    [] c = CR -> 13
    [] c = DEL -> 127
    [] c = HIGH -> 128
    [] OTHER -> 31 + (CHOOSE i \in 1..Len(Printable) : Printable[i] = c)

\* The octets of the model: the printable ones, four controls, DEL and one
\* octet above 127.
Octet == {NUL, HT, LF, CR, DEL, HIGH} \cup {Printable[i] : i \in 1..Len(Printable)}

\* A char of the source is signed: an octet above 127 is negative as an int.
AsInt(c) == IF Ord(c) > 127 THEN Ord(c) - 256 ELSE Ord(c)

isChar(c) == AsInt(c) >= 0 /\ AsInt(c) <= 127

isControl(c) == (AsInt(c) >= 0 /\ AsInt(c) <= 31) \/ AsInt(c) = 127

isDigit(c) == AsInt(c) >= Ord("0") /\ AsInt(c) <= Ord("9")

isSpecial(c) ==
  c \in {"(", ")", "<", ">", "@", ",", ";", ":", BACKSLASH, DQUOTE, "/", "[", "]",
         "?", "=", "{", "}", SP, HT}

\* A test for token octets that lets the special octets pass.
NotTokenLax(c) == ~isChar(c) \/ isControl(c)

\* The test the source writes as !isChar(c) || isControl(c) || isSpecial(c).
NotToken(c) == ~isChar(c) \/ isControl(c) \/ isSpecial(c)

(***************************************************************************)
(* Octet strings (std::string, buffers) as sequences of runs               *)
(***************************************************************************)
\* The runs lo..hi of s hold so many octets.  (Sums and loops over a string
\* are split in halves, which keeps the evaluation shallow.)
RECURSIVE SizeRange(_, _, _)
SizeRange(s, lo, hi) ==
  IF lo > hi THEN 0
  ELSE IF lo = hi THEN s[lo][2]
  ELSE LET mid == (lo + hi) \div 2
       IN  SizeRange(s, lo, mid) + SizeRange(s, mid + 1, hi)

size(s) == SizeRange(s, 1, Len(s))

empty(s) == s = <<>>

\* k times push_back(c).
push_n(s, c, k) ==
  IF k = 0 THEN s
  ELSE IF s # <<>> /\ s[Len(s)][1] = c
       THEN [s EXCEPT ![Len(s)] = <<c, @[2] + k>>]
       ELSE Append(s, <<c, k>>)

push_back(s, c) == push_n(s, c, 1)

\* s followed by t.
cat(s, t) ==
  IF s = <<>> THEN t
  ELSE IF t = <<>> THEN s
  ELSE IF s[Len(s)][1] = t[1][1]
       THEN SubSeq(s, 1, Len(s) - 1) \o <<<<t[1][1], s[Len(s)][2] + t[1][2]>>>> \o Tail(t)
       ELSE s \o t

\* The string of the octets cs[1], cs[2], ...: a run starts at each octet
\* that differs from the one before it.
str(cs) ==
  LET starts == {i \in 1..Len(cs) : i = 1 \/ cs[i] # cs[i - 1]}
      nth(k) == CHOOSE i \in starts : Cardinality({j \in starts : j < i}) = k - 1
      stop(i) == CHOOSE j \in (i + 1)..(Len(cs) + 1) :
                   /\ j = Len(cs) + 1 \/ j \in starts
                   /\ \A m \in (i + 1)..(j - 1) : m \notin starts
  IN  [k \in 1..Cardinality(starts) |-> <<cs[nth(k)], stop(nth(k)) - nth(k)>>]

rep(c, n) == push_n(<<>>, c, n)

\* The run of s that holds its i-th octet (1 <= i <= size(s)), and the
\* octets of s before that run.
RunOf(s, i) ==
  CHOOSE j \in 1..Len(s) : SizeRange(s, 1, j - 1) < i /\ i <= SizeRange(s, 1, j)

Before(s, j) == SizeRange(s, 1, j - 1)

\* The first k octets of s, and s without them.
take(s, k) ==
  IF k <= 0 THEN <<>>
  ELSE IF k >= size(s) THEN s
  ELSE LET j == RunOf(s, k)
       IN  SubSeq(s, 1, j - 1) \o <<<<s[j][1], k - Before(s, j)>>>>

drop(s, k) ==
  IF k <= 0 THEN s
  ELSE IF k >= size(s) THEN <<>>
  ELSE LET j == RunOf(s, k + 1)
       IN  <<<<s[j][1], s[j][2] - (k - Before(s, j))>>>> \o SubSeq(s, j + 1, Len(s))

\* The i-th octet of s (1 <= i <= size(s)).
at(s, i) == s[RunOf(s, i)][1]

Min(a, b) == IF a <= b THEN a ELSE b

(***************************************************************************)
(* Ceilings                                                                *)
(***************************************************************************)
METHOD_MAX == 1024
RESOURCE_MAX == 262144
QUERY_STRING_MAX == 1048576
HEADER_NAME_MAX == 1024
HEADER_VALUE_MAX == 1048576
QUERY_NAME_MAX == 1024
QUERY_VALUE_MAX == 1048576
POST_CONTENT_MAX == 1048576

\* A ceiling test that never fails.
AtCeilingUnchecked(s, max) == FALSE

\* A ceiling test that lets one octet too many in.
AtCeilingOffByOne(s, max) == size(s) > max

\* The ceiling test before an append: s.size() >= max.
AtCeiling(s, max) == size(s) >= max

(***************************************************************************)
(* The header state machine                                                *)
(***************************************************************************)
\* A parser as constructed: m_parse_state and the scratch strings.
NewParser ==
  [m_parse_state |-> "PARSE_METHOD_START",
   m_method |-> <<>>, m_resource |-> <<>>, m_query_string |-> <<>>,
   m_header_name |-> <<>>, m_header_value |-> <<>>]

\* A request as constructed (HTTPRequest is declared outside src/).
NewRequest ==
  [method |-> <<>>, resource |-> <<>>, query_string |-> <<>>,
   version_major |-> 0, version_minor |-> 0, headers |-> <<>>,
   query_params |-> <<>>, content_length |-> 0, post_content |-> <<>>,
   is_valid |-> FALSE]

\* HTTPRequest::addHeader: one more (name, value) entry of the multimap.
addHeader(r, name, value) == [r EXCEPT !.headers = Append(@, <<name, value>>)]

\* The outcomes of one octet: go on to the next octet, or return.
Next1(p, r) == [p |-> p, r |-> r, res |-> "indeterminate", adv |-> 1]
Ret(p, r, res, adv) == [p |-> p, r |-> r, res |-> res, adv |-> adv]

\* PARSE_EXPECTING_NEWLINE and PARSE_EXPECTING_CR that return true on the
\* second bare line end without advancing past it.
ExpectingCaseNoAdvance(p, r, c, nl, again) ==
  IF c = nl THEN Next1([p EXCEPT !.m_parse_state = "PARSE_HEADER_START"], r)
  ELSE IF c = again THEN Ret(p, r, "true", 0)
  ELSE IF c = HT \/ c = SP
       THEN Next1([p EXCEPT !.m_parse_state = "PARSE_HEADER_WHITESPACE"], r)
  ELSE IF NotToken(c) THEN Ret(p, r, "false", 0)
  ELSE Next1([p EXCEPT !.m_header_name = push_back(<<>>, c),
                       !.m_parse_state = "PARSE_HEADER_NAME"], r)

\* PARSE_EXPECTING_NEWLINE and PARSE_EXPECTING_CR that take a second bare
\* line end for a malformed request.
ExpectingCaseStrict(p, r, c, nl, again) ==
  IF c = nl THEN Next1([p EXCEPT !.m_parse_state = "PARSE_HEADER_START"], r)
  ELSE IF c = again THEN Ret(p, r, "false", 0)
  ELSE IF c = HT \/ c = SP
       THEN Next1([p EXCEPT !.m_parse_state = "PARSE_HEADER_WHITESPACE"], r)
  ELSE IF NotToken(c) THEN Ret(p, r, "false", 0)
  ELSE Next1([p EXCEPT !.m_header_name = push_back(<<>>, c),
                       !.m_parse_state = "PARSE_HEADER_NAME"], r)

\* The states PARSE_EXPECTING_NEWLINE and PARSE_EXPECTING_CR: `nl` is the
\* octet that completes the line end, `again` the one just received.
ExpectingCase(p, r, c, nl, again) ==
  IF c = nl THEN Next1([p EXCEPT !.m_parse_state = "PARSE_HEADER_START"], r)
  ELSE IF c = again THEN Ret(p, r, "true", 1)
  ELSE IF c = HT \/ c = SP
       THEN Next1([p EXCEPT !.m_parse_state = "PARSE_HEADER_WHITESPACE"], r)
  ELSE IF NotToken(c) THEN Ret(p, r, "false", 0)
  ELSE Next1([p EXCEPT !.m_header_name = push_back(<<>>, c),
                       !.m_parse_state = "PARSE_HEADER_NAME"], r)

\* The literal octets of "HTTP/": the state that follows a match.
LiteralCase(p, r, c, lit, next) ==
  IF c # lit THEN Ret(p, r, "false", 0)
  ELSE Next1([p EXCEPT !.m_parse_state = next], r)

\* A PARSE_SPACE_BEFORE_HEADER_VALUE that skips every SP before the value.
SpaceBeforeHeaderValueSkipsAll(p, r, c) ==
  IF c = SP THEN Next1(p, r)
  ELSE IF c = CR
  THEN Next1([p EXCEPT !.m_parse_state = "PARSE_EXPECTING_NEWLINE"],
             addHeader(r, p.m_header_name, p.m_header_value))
  ELSE IF c = LF
  THEN Next1([p EXCEPT !.m_parse_state = "PARSE_EXPECTING_CR"],
             addHeader(r, p.m_header_name, p.m_header_value))
  ELSE IF NotToken(c) THEN Ret(p, r, "false", 0)
  ELSE Next1([p EXCEPT !.m_header_value = push_back(@, c),
                       !.m_parse_state = "PARSE_HEADER_VALUE"], r)

\* PARSE_SPACE_BEFORE_HEADER_VALUE: the octet after the colon of a header.
SpaceBeforeHeaderValueCase(p, r, c) ==
  IF c = SP THEN Next1([p EXCEPT !.m_parse_state = "PARSE_HEADER_VALUE"], r)
  ELSE IF c = CR
  THEN Next1([p EXCEPT !.m_parse_state = "PARSE_EXPECTING_NEWLINE"],
             addHeader(r, p.m_header_name, p.m_header_value))
  ELSE IF c = LF
  THEN Next1([p EXCEPT !.m_parse_state = "PARSE_EXPECTING_CR"],
             addHeader(r, p.m_header_name, p.m_header_value))
  ELSE IF NotToken(c) THEN Ret(p, r, "false", 0)
  ELSE Next1([p EXCEPT !.m_header_value = push_back(@, c),
                       !.m_parse_state = "PARSE_HEADER_VALUE"], r)

\* PARSE_EXPECTING_FINAL_NEWLINE and PARSE_EXPECTING_FINAL_CR that advance
\* past the octet whatever it is.
ExpectingFinalCaseGreedy(p, r, c, closing) == Ret(p, r, "true", 1)

\* PARSE_EXPECTING_FINAL_NEWLINE (closing is LF) and PARSE_EXPECTING_FINAL_CR
\* (closing is CR): if (*ptr == closing) ++ptr; return true.
ExpectingFinalCase(p, r, c, closing) == Ret(p, r, "true", IF c = closing THEN 1 ELSE 0)

\* One turn of the switch of parseRequestHeaders on octet c.
ParseChar(p, r, c) ==
  CASE p.m_parse_state = "PARSE_METHOD_START" ->
         IF NotToken(c) THEN Ret(p, r, "false", 0)
         ELSE Next1([p EXCEPT !.m_parse_state = "PARSE_METHOD",
                              !.m_method = push_back(<<>>, c)], r)
    [] p.m_parse_state = "PARSE_METHOD" ->
         IF c = SP
         THEN Next1([p EXCEPT !.m_resource = <<>>,
                              !.m_parse_state = "PARSE_URI_STEM"],
                    [r EXCEPT !.method = p.m_method])
         ELSE IF NotToken(c) THEN Ret(p, r, "false", 0)
         ELSE IF AtCeiling(p.m_method, METHOD_MAX) THEN Ret(p, r, "false", 0)
         ELSE Next1([p EXCEPT !.m_method = push_back(@, c)], r)
    [] p.m_parse_state = "PARSE_URI_STEM" ->
         IF c = SP
         THEN Next1([p EXCEPT !.m_parse_state = "PARSE_HTTP_VERSION_H"],
                    [r EXCEPT !.resource = p.m_resource])
         ELSE IF c = "?"
         THEN Next1([p EXCEPT !.m_query_string = <<>>,
                              !.m_parse_state = "PARSE_URI_QUERY"],
                    [r EXCEPT !.resource = p.m_resource])
         ELSE IF isControl(c) THEN Ret(p, r, "false", 0)
         ELSE IF AtCeiling(p.m_resource, RESOURCE_MAX) THEN Ret(p, r, "false", 0)
         ELSE Next1([p EXCEPT !.m_resource = push_back(@, c)], r)
    [] p.m_parse_state = "PARSE_URI_QUERY" ->
         IF c = SP
         THEN Next1([p EXCEPT !.m_parse_state = "PARSE_HTTP_VERSION_H"],
                    [r EXCEPT !.query_string = p.m_query_string])
         ELSE IF isControl(c) THEN Ret(p, r, "false", 0)
         ELSE IF AtCeiling(p.m_query_string, QUERY_STRING_MAX) THEN Ret(p, r, "false", 0)
         ELSE Next1([p EXCEPT !.m_query_string = push_back(@, c)], r)
    [] p.m_parse_state = "PARSE_HTTP_VERSION_H" ->
         LiteralCase(p, r, c, "H", "PARSE_HTTP_VERSION_T_1")
    [] p.m_parse_state = "PARSE_HTTP_VERSION_T_1" ->
         LiteralCase(p, r, c, "T", "PARSE_HTTP_VERSION_T_2")
    [] p.m_parse_state = "PARSE_HTTP_VERSION_T_2" ->
         LiteralCase(p, r, c, "T", "PARSE_HTTP_VERSION_P")
    [] p.m_parse_state = "PARSE_HTTP_VERSION_P" ->
         LiteralCase(p, r, c, "P", "PARSE_HTTP_VERSION_SLASH")
    [] p.m_parse_state = "PARSE_HTTP_VERSION_SLASH" ->
         LiteralCase(p, r, c, "/", "PARSE_HTTP_VERSION_MAJOR_START")
    [] p.m_parse_state = "PARSE_HTTP_VERSION_MAJOR_START" ->
         IF ~isDigit(c) THEN Ret(p, r, "false", 0)
         ELSE Next1([p EXCEPT !.m_parse_state = "PARSE_HTTP_VERSION_MAJOR"],
                    [r EXCEPT !.version_major = Ord(c) - Ord("0")])
    [] p.m_parse_state = "PARSE_HTTP_VERSION_MAJOR" ->
         IF c = "."
         THEN Next1([p EXCEPT !.m_parse_state = "PARSE_HTTP_VERSION_MINOR_START"], r)
         ELSE IF isDigit(c)
         THEN Next1(p, [r EXCEPT !.version_major = (@ * 10) + (Ord(c) - Ord("0"))])
         ELSE Ret(p, r, "false", 0)
    [] p.m_parse_state = "PARSE_HTTP_VERSION_MINOR_START" ->
         IF ~isDigit(c) THEN Ret(p, r, "false", 0)
         ELSE Next1([p EXCEPT !.m_parse_state = "PARSE_HTTP_VERSION_MINOR"],
                    [r EXCEPT !.version_minor = Ord(c) - Ord("0")])
    [] p.m_parse_state = "PARSE_HTTP_VERSION_MINOR" ->
         IF c = CR THEN Next1([p EXCEPT !.m_parse_state = "PARSE_EXPECTING_NEWLINE"], r)
         ELSE IF c = LF THEN Next1([p EXCEPT !.m_parse_state = "PARSE_EXPECTING_CR"], r)
         ELSE IF isDigit(c)
         THEN Next1(p, [r EXCEPT !.version_minor = (@ * 10) + (Ord(c) - Ord("0"))])
         ELSE Ret(p, r, "false", 0)
    [] p.m_parse_state = "PARSE_EXPECTING_NEWLINE" -> ExpectingCase(p, r, c, LF, CR)
    [] p.m_parse_state = "PARSE_EXPECTING_CR" -> ExpectingCase(p, r, c, CR, LF)
    [] p.m_parse_state = "PARSE_HEADER_WHITESPACE" ->
         IF c = CR THEN Next1([p EXCEPT !.m_parse_state = "PARSE_EXPECTING_NEWLINE"], r)
         ELSE IF c = LF THEN Next1([p EXCEPT !.m_parse_state = "PARSE_EXPECTING_CR"], r)
         ELSE IF c # HT /\ c # SP
         THEN IF NotToken(c) THEN Ret(p, r, "false", 0)
              ELSE Next1([p EXCEPT !.m_header_name = push_back(<<>>, c),
                                   !.m_parse_state = "PARSE_HEADER_NAME"], r)
         ELSE Next1(p, r)
    [] p.m_parse_state = "PARSE_HEADER_START" ->
         IF c = CR
         THEN Next1([p EXCEPT !.m_parse_state = "PARSE_EXPECTING_FINAL_NEWLINE"], r)
         ELSE IF c = LF
         THEN Next1([p EXCEPT !.m_parse_state = "PARSE_EXPECTING_FINAL_CR"], r)
         ELSE IF c = HT \/ c = SP
         THEN Next1([p EXCEPT !.m_parse_state = "PARSE_HEADER_WHITESPACE"], r)
         ELSE IF NotToken(c) THEN Ret(p, r, "false", 0)
         ELSE Next1([p EXCEPT !.m_header_name = push_back(<<>>, c),
                              !.m_parse_state = "PARSE_HEADER_NAME"], r)
    [] p.m_parse_state = "PARSE_HEADER_NAME" ->
         IF c = ":"
         THEN Next1([p EXCEPT !.m_header_value = <<>>,
                              !.m_parse_state = "PARSE_SPACE_BEFORE_HEADER_VALUE"], r)
         ELSE IF NotToken(c) THEN Ret(p, r, "false", 0)
         ELSE IF AtCeiling(p.m_header_name, HEADER_NAME_MAX) THEN Ret(p, r, "false", 0)
         ELSE Next1([p EXCEPT !.m_header_name = push_back(@, c)], r)
    [] p.m_parse_state = "PARSE_SPACE_BEFORE_HEADER_VALUE" ->
         SpaceBeforeHeaderValueCase(p, r, c)
    [] p.m_parse_state = "PARSE_HEADER_VALUE" ->
         IF c = CR
         THEN Next1([p EXCEPT !.m_parse_state = "PARSE_EXPECTING_NEWLINE"],
                    addHeader(r, p.m_header_name, p.m_header_value))
         ELSE IF c = LF
         THEN Next1([p EXCEPT !.m_parse_state = "PARSE_EXPECTING_CR"],
                    addHeader(r, p.m_header_name, p.m_header_value))
         ELSE IF isControl(c) THEN Ret(p, r, "false", 0)
         ELSE IF AtCeiling(p.m_header_value, HEADER_VALUE_MAX) THEN Ret(p, r, "false", 0)
         ELSE Next1([p EXCEPT !.m_header_value = push_back(@, c)], r)
    [] p.m_parse_state = "PARSE_EXPECTING_FINAL_NEWLINE" ->
         ExpectingFinalCase(p, r, c, LF)
    [] p.m_parse_state = "PARSE_EXPECTING_FINAL_CR" ->
         ExpectingFinalCase(p, r, c, CR)

\* Of n equal octets whose first was appended to s under ceiling max, those
\* that are appended before the ceiling test fails.
Room(n, s, max) == Min(n, IF max - size(s) >= 1 THEN max - size(s) ELSE 1)

\* The states whose default branch appends the octet to a scratch string and
\* stays: the scratch string and its ceiling.
Scratch(state) ==
  CASE state = "PARSE_METHOD" -> <<"m_method", METHOD_MAX>>
    [] state = "PARSE_URI_STEM" -> <<"m_resource", RESOURCE_MAX>>
    [] state = "PARSE_URI_QUERY" -> <<"m_query_string", QUERY_STRING_MAX>>
    [] state = "PARSE_HEADER_NAME" -> <<"m_header_name", HEADER_NAME_MAX>>
    [] state = "PARSE_HEADER_VALUE" -> <<"m_header_value", HEADER_VALUE_MAX>>
    [] OTHER -> <<"", 0>>

\* The while loop of parseRequestHeaders over n copies of octet c, `done`
\* octets of the call consumed before them; q is the turn of the switch on
\* the first of them.  In a Scratch state whose turn on c appended c and
\* stayed, the turns that follow do the same until the ceiling is reached:
\* they are taken together.  So are the turns that change nothing (white
\* space that is skipped).
RECURSIVE ParseRun(_, _, _, _, _)
AfterChar(p, r, c, n, done, q, f) ==
  IF q.res # "indeterminate"
  THEN [p |-> q.p, r |-> q.r, res |-> q.res, consumed |-> done + q.adv]
  ELSE IF q.p.m_parse_state = p.m_parse_state /\ f[1] # ""
  THEN ParseRun([p EXCEPT ![f[1]] = push_n(@, c, Room(n, p[f[1]], f[2]))],
                r, c, n - Room(n, p[f[1]], f[2]),
                done + Room(n, p[f[1]], f[2]))
  ELSE IF q.p = p /\ q.r = r
  THEN [p |-> p, r |-> r, res |-> "indeterminate", consumed |-> done + n]
  ELSE ParseRun(q.p, q.r, c, n - 1, done + 1)

ParseRun(p, r, c, n, done) ==
  IF n = 0 THEN [p |-> p, r |-> r, res |-> "indeterminate", consumed |-> done]
  ELSE AfterChar(p, r, c, n, done, ParseChar(p, r, c), Scratch(p.m_parse_state))

\* The while loop over the runs lo..hi of buf, from the state st of the
\* call; it ends at the first return.
RECURSIVE ParseRange(_, _, _, _)
ParseRange(st, buf, lo, hi) ==
  IF lo > hi \/ st.res # "indeterminate" THEN st
  ELSE IF lo = hi THEN ParseRun(st.p, st.r, buf[lo][1], buf[lo][2], st.consumed)
  ELSE LET mid == (lo + hi) \div 2
           half == ParseRange(st, buf, lo, mid)
       IN  ParseRange(half, buf, mid + 1, hi)

\* A parseRequestHeaders that takes the end of the buffer right before the
\* last octet of the headers for a malformed request.
parseRequestHeadersNoLookahead(p, r, buf) ==
  LET GiveUp(q) ==
        IF q.res = "indeterminate"
             /\ q.p.m_parse_state \in {"PARSE_EXPECTING_FINAL_NEWLINE",
                                       "PARSE_EXPECTING_FINAL_CR"}
        THEN [q EXCEPT !.res = "false"]
        ELSE q
  IN  GiveUp(ParseRange([p |-> p, r |-> r, res |-> "indeterminate", consumed |-> 0],
                        buf, 1, Len(buf)))

\* A parseRequestHeaders whose scratch strings do not outlive the call.
parseRequestHeadersFresh(p, r, buf) ==
  ParseRange([p |-> [p EXCEPT !.m_method = <<>>, !.m_resource = <<>>,
                              !.m_query_string = <<>>, !.m_header_name = <<>>,
                              !.m_header_value = <<>>],
              r |-> r, res |-> "indeterminate", consumed |-> 0],
             buf, 1, Len(buf))

\* parseRequestHeaders(ptr, len) on the octets buf: the parser and request
\* after the call, the tribool returned and the octets ptr advanced by.
parseRequestHeaders(p, r, buf) ==
  ParseRange([p |-> p, r |-> r, res |-> "indeterminate", consumed |-> 0],
             buf, 1, Len(buf))

(***************************************************************************)
(* The form decoder                                                        *)
(***************************************************************************)
\* dict.insert(std::make_pair(name, value)) on a dictionary that keeps
\* duplicates.
insert(dict, name, value) == Append(dict, <<name, value>>)

\* The locals of parseURLEncoded as the loop starts.
NewQuery(dict) ==
  [parse_state |-> "QUERY_PARSE_NAME", query_name |-> <<>>, query_value |-> <<>>,
   dict |-> dict, ok |-> TRUE]

\* A switch of parseURLEncoded that lets an empty pair through.
QueryCharEmptyPair(q, c) ==
  IF q.parse_state = "QUERY_PARSE_NAME"
  THEN IF c = "="
       THEN IF empty(q.query_name) THEN [q EXCEPT !.ok = FALSE]
            ELSE [q EXCEPT !.parse_state = "QUERY_PARSE_VALUE"]
       ELSE IF c = "&"
       THEN IF empty(q.query_name) THEN q
            ELSE [q EXCEPT !.dict = insert(@, q.query_name, q.query_value),
                           !.query_name = <<>>]
       ELSE IF isControl(c) \/ AtCeiling(q.query_name, QUERY_NAME_MAX)
       THEN [q EXCEPT !.ok = FALSE]
       ELSE [q EXCEPT !.query_name = push_back(@, c)]
  ELSE IF c = "&"
       THEN [q EXCEPT !.dict = insert(@, q.query_name, q.query_value),
                      !.query_name = <<>>, !.query_value = <<>>,
                      !.parse_state = "QUERY_PARSE_NAME"]
       ELSE IF isControl(c) \/ AtCeiling(q.query_value, QUERY_VALUE_MAX)
       THEN [q EXCEPT !.ok = FALSE]
       ELSE [q EXCEPT !.query_value = push_back(@, c)]

\* One turn of the switch of parseURLEncoded on octet c; ok = FALSE is
\* `return false`.
QueryChar(q, c) ==
  IF q.parse_state = "QUERY_PARSE_NAME"
  THEN IF c = "="
       THEN IF empty(q.query_name) THEN [q EXCEPT !.ok = FALSE]
            ELSE [q EXCEPT !.parse_state = "QUERY_PARSE_VALUE"]
       ELSE IF c = "&"
       THEN IF empty(q.query_name) THEN [q EXCEPT !.ok = FALSE]
            ELSE [q EXCEPT !.dict = insert(@, q.query_name, q.query_value),
                           !.query_name = <<>>]
       ELSE IF isControl(c) \/ AtCeiling(q.query_name, QUERY_NAME_MAX)
       THEN [q EXCEPT !.ok = FALSE]
       ELSE [q EXCEPT !.query_name = push_back(@, c)]
  ELSE IF c = "&"
       THEN [q EXCEPT !.dict = insert(@, q.query_name, q.query_value),
                      !.query_name = <<>>, !.query_value = <<>>,
                      !.parse_state = "QUERY_PARSE_NAME"]
       ELSE IF isControl(c) \/ AtCeiling(q.query_value, QUERY_VALUE_MAX)
       THEN [q EXCEPT !.ok = FALSE]
       ELSE [q EXCEPT !.query_value = push_back(@, c)]

\* The string a state of the decoder appends to, and its ceiling.
QueryScratch(state) ==
  IF state = "QUERY_PARSE_NAME" THEN <<"query_name", QUERY_NAME_MAX>>
  ELSE <<"query_value", QUERY_VALUE_MAX>>

\* The loop of parseURLEncoded over n copies of octet c, q1 the turn of the
\* switch on the first of them; the turns that append c and stay are taken
\* together, up to the ceiling.
RECURSIVE QueryRun(_, _, _)
AfterQueryChar(q, c, n, q1, f) ==
  IF ~q1.ok THEN q1
  ELSE IF q1.parse_state = q.parse_state /\ q1.dict = q.dict
  THEN QueryRun([q EXCEPT ![f[1]] = push_n(@, c, Room(n, q[f[1]], f[2]))],
                c, n - Room(n, q[f[1]], f[2]))
  ELSE QueryRun(q1, c, n - 1)

QueryRun(q, c, n) ==
  IF n = 0 THEN q
  ELSE AfterQueryChar(q, c, n, QueryChar(q, c), QueryScratch(q.parse_state))

\* The loop over the runs lo..hi of buf; it ends at the first return.
RECURSIVE QueryRange(_, _, _, _)
QueryRange(q, buf, lo, hi) ==
  IF lo > hi \/ ~q.ok THEN q
  ELSE IF lo = hi THEN QueryRun(q, buf[lo][1], buf[lo][2])
  ELSE LET mid == (lo + hi) \div 2
           half == QueryRange(q, buf, lo, mid)
       IN  QueryRange(half, buf, mid + 1, hi)

\* The end of parseURLEncoded without the last pair of the string.
LastPairDropped(q) == [ok |-> q.ok, dict |-> q.dict]

\* The end of parseURLEncoded, q the locals as the loop ended: the last
\* pair of the string.
LastPair(q) ==
  IF ~q.ok THEN [ok |-> FALSE, dict |-> q.dict]
  ELSE [ok |-> TRUE,
        dict |-> IF ~empty(q.query_name)
                 THEN insert(q.dict, q.query_name, q.query_value)
                 ELSE q.dict]

\* parseURLEncoded(dict, ptr, len) on the octets buf: the value returned
\* and the dictionary after the call.
parseURLEncoded(dict, buf) == LastPair(QueryRange(NewQuery(dict), buf, 1, Len(buf)))

(***************************************************************************)
(* The request and its headers (HTTPRequest and HTTPTypes are declared     *)
(* outside src/)                                                           *)
(***************************************************************************)
HEADER_CONTENT_LENGTH ==
  str(<<"C", "o", "n", "t", "e", "n", "t", "-", "L", "e", "n", "g", "t", "h">>)

HEADER_CONTENT_TYPE ==
  str(<<"C", "o", "n", "t", "e", "n", "t", "-", "T", "y", "p", "e">>)

CONTENT_TYPE_URLENCODED ==
  str(<<"a", "p", "p", "l", "i", "c", "a", "t", "i", "o", "n", "/", "x", "-",
       "w", "w", "w", "-", "f", "o", "r", "m", "-", "u", "r", "l", "e", "n",
       "c", "o", "d", "e", "d">>)

hasHeader(r, name) == \E i \in 1..Len(r.headers) : r.headers[i][1] = name

\* The value of the first entry of that name, the empty string without one.
getHeader(r, name) ==
  IF hasHeader(r, name)
  THEN r.headers[CHOOSE i \in 1..Len(r.headers) :
                   /\ r.headers[i][1] = name
                   /\ \A j \in 1..(i - 1) : r.headers[j][1] # name][2]
  ELSE <<>>

\* strtoul(s, 0, 10): leading white space and one '+' are skipped, then the
\* decimal digits up to the first other octet are the value (0 without a
\* digit).  The requests of the model stay below the width of the type.
isSpace(c) == c \in {SP, HT, LF, CR}

RECURSIVE DigitsValue(_, _, _)
DigitsValue(s, i, acc) ==
  IF i > size(s) \/ ~isDigit(at(s, i)) THEN acc
  ELSE DigitsValue(s, i + 1, (acc * 10) + (Ord(at(s, i)) - Ord("0")))

RECURSIVE SkipSpace(_, _)
SkipSpace(s, i) == IF i <= size(s) /\ isSpace(at(s, i)) THEN SkipSpace(s, i + 1) ELSE i

AfterSign(s, i) == IF i <= size(s) /\ at(s, i) = "+" THEN i + 1 ELSE i

strtoul(s) == DigitsValue(s, AfterSign(s, SkipSpace(s, 1)), 0)

(***************************************************************************)
(* The requests a client sends                                             *)
(***************************************************************************)
\* S1
ReqMinimalGet ==
  str(<<"G", "E", "T", SP, "/", SP, "H", "T", "T", "P", "/", "1", ".", "1",
       CR, LF, "H", "o", "s", "t", ":", SP, "x", CR, LF, CR, LF>>)

\* S2
ReqBareLF ==
  str(<<"G", "E", "T", SP, "/", "a", SP, "H", "T", "T", "P", "/", "1", ".",
       "0", LF, "H", "o", "s", "t", ":", SP, "y", LF, LF>>)

\* Bare CR line ends
ReqBareCR ==
  str(<<"G", "E", "T", SP, "/", "a", SP, "H", "T", "T", "P", "/", "1", ".",
       "0", CR, "H", "o", "s", "t", ":", SP, "y", CR, CR>>)

\* S3
ReqQuery ==
  str(<<"G", "E", "T", SP, "/", "s", "?", "a", "=", "1", "&", "b", "=", "&",
       "c", "=", "2", SP, "H", "T", "T", "P", "/", "1", ".", "1", CR, LF, CR,
       LF>>)

\* S4
ReqFormPost ==
  str(<<"P", "O", "S", "T", SP, "/", "f", SP, "H", "T", "T", "P", "/", "1",
       ".", "1", CR, LF, "C", "o", "n", "t", "e", "n", "t", "-", "L", "e",
       "n", "g", "t", "h", ":", SP, "7", CR, LF, "C", "o", "n", "t", "e",
       "n", "t", "-", "T", "y", "p", "e", ":", SP, "a", "p", "p", "l", "i",
       "c", "a", "t", "i", "o", "n", "/", "x", "-", "w", "w", "w", "-", "f",
       "o", "r", "m", "-", "u", "r", "l", "e", "n", "c", "o", "d", "e", "d",
       CR, LF, CR, LF, "k", "=", "v", "&", "x", "=", "y">>)

\* S7
ReqBogusVersion ==
  str(<<"G", "E", "T", SP, "/", SP, "H", "X", "T", "P", "/", "1", ".", "1",
       CR, LF, CR, LF>>)

\* A query string, then a bogus version
ReqBogusVersionQuery ==
  str(<<"G", "E", "T", SP, "/", "s", "?", "a", "=", "1", SP, "H", "X", "T",
       "P", "/", "1", ".", "1", CR, LF, CR, LF>>)

\* More octets than Content-Length
ReqExtraBody ==
  str(<<"P", "O", "S", "T", SP, "/", "f", SP, "H", "T", "T", "P", "/", "1",
       ".", "1", CR, LF, "C", "o", "n", "t", "e", "n", "t", "-", "L", "e",
       "n", "g", "t", "h", ":", SP, "3", CR, LF, CR, LF, "a", "b", "c", "d",
       "e">>)

\* Fewer octets than Content-Length: the client stops
ReqShortBody ==
  str(<<"P", "O", "S", "T", SP, "/", "f", SP, "H", "T", "T", "P", "/", "1",
       ".", "1", CR, LF, "C", "o", "n", "t", "e", "n", "t", "-", "L", "e",
       "n", "g", "t", "h", ":", SP, "5", CR, LF, CR, LF, "a", "b">>)

\* Content-Length: 0 and octets after the header block
ReqZeroLength ==
  str(<<"G", "E", "T", SP, "/", SP, "H", "T", "T", "P", "/", "1", ".", "1",
       CR, LF, "C", "o", "n", "t", "e", "n", "t", "-", "L", "e", "n", "g",
       "t", "h", ":", SP, "0", CR, LF, CR, LF, "x", "y">>)

\* A query string and a body the form decoder rejects
ReqBadForms ==
  str(<<"P", "O", "S", "T", SP, "/", "f", "?", "=", "v", "&", "a", "=", "1",
       SP, "H", "T", "T", "P", "/", "1", ".", "1", CR, LF, "C", "o", "n",
       "t", "e", "n", "t", "-", "T", "y", "p", "e", ":", SP, "a", "p", "p",
       "l", "i", "c", "a", "t", "i", "o", "n", "/", "x", "-", "w", "w", "w",
       "-", "f", "o", "r", "m", "-", "u", "r", "l", "e", "n", "c", "o", "d",
       "e", "d", CR, LF, "C", "o", "n", "t", "e", "n", "t", "-", "L", "e",
       "n", "g", "t", "h", ":", SP, "5", CR, LF, CR, LF, "k", "=", "v", "&",
       "&">>)

\* A query string and a body the form decoder rejects after their first pair
ReqBadFormsLate ==
  str(<<"P", "O", "S", "T", SP, "/", "f", "?", "a", "=", "1", "&", "&", "b",
       "=", "2", SP, "H", "T", "T", "P", "/", "1", ".", "1", CR, LF, "C",
       "o", "n", "t", "e", "n", "t", "-", "T", "y", "p", "e", ":", SP, "a",
       "p", "p", "l", "i", "c", "a", "t", "i", "o", "n", "/", "x", "-", "w",
       "w", "w", "-", "f", "o", "r", "m", "-", "u", "r", "l", "e", "n", "c",
       "o", "d", "e", "d", CR, LF, "C", "o", "n", "t", "e", "n", "t", "-",
       "L", "e", "n", "g", "t", "h", ":", SP, "6", CR, LF, CR, LF, "k", "=",
       "v", "&", HT, "z">>)

\* A Content-Type that is not that of a form by one octet
ReqNearlyForm ==
  str(<<"P", "O", "S", "T", SP, "/", "f", "?", "q", "=", "1", SP, "H", "T",
       "T", "P", "/", "1", ".", "1", CR, LF, "C", "o", "n", "t", "e", "n",
       "t", "-", "T", "y", "p", "e", ":", SP, "a", "p", "p", "l", "i", "c",
       "a", "t", "i", "o", "n", "/", "x", "-", "w", "w", "w", "-", "f", "o",
       "r", "m", "-", "u", "r", "l", "e", "n", "c", "o", "d", "e", "d", ";",
       CR, LF, "C", "o", "n", "t", "e", "n", "t", "-", "L", "e", "n", "g",
       "t", "h", ":", SP, "3", CR, LF, CR, LF, "a", "=", "1">>)

\* S6: a method of METHOD_MAX + 1 octets.
ReqLongMethod ==
  cat(rep("A", METHOD_MAX + 1),
      str(<<SP, "/", SP, "H", "T", "T", "P", "/", "1", ".", "1", CR, LF, CR,
           LF>>))

\* A body of n octets announced by Content-Length: n, n written as digits.
ReqBody(digits, n) ==
  cat(cat(cat(str(<<"P", "O", "S", "T", SP, "/", "f", SP, "H", "T", "T",
                     "P", "/", "1", ".", "1", CR, LF, "C", "o", "n", "t",
                     "e", "n", "t", "-", "L", "e", "n", "g", "t", "h", ":",
                     SP>>),
              str(digits)),
          str(<<CR, LF, CR, LF>>)),
      rep("x", n))

ReqBodyAtCeiling == ReqBody(<<"1", "0", "4", "8", "5", "7", "6">>, POST_CONTENT_MAX)

ReqBodyOverCeiling == ReqBody(<<"1", "0", "4", "8", "5", "7", "7">>, POST_CONTENT_MAX + 1)

Requests ==
  <<ReqMinimalGet, ReqBareLF, ReqBareCR, ReqQuery,
    ReqFormPost, ReqBogusVersion, ReqBogusVersionQuery, ReqExtraBody, ReqShortBody,
    ReqZeroLength, ReqBadForms,
    ReqLongMethod, ReqBodyAtCeiling, ReqBodyOverCeiling, ReqBadFormsLate,
    ReqNearlyForm>>

(***************************************************************************)
(* The reader                                                              *)
(***************************************************************************)
VARIABLES
  stream,     \* the octets the client sends on the connection
  wire,       \* those the reader has not read yet
  io,         \* the read outstanding: "new" (none yet), "read_some",
              \* "read_exact" or "none"
  need,       \* the octets the outstanding exact-length read asks for
  parser,     \* m_parse_state and the scratch strings
  request,    \* *m_http_request
  result,     \* what parseRequestHeaders returned last ("none" before)
  parsed,     \* the octets parseRequestHeaders advanced read_ptr by, in all
  writes,     \* the writes into the post content buffer: <<offset, length>>
  delivered,  \* the requests m_request_handler was called with
  validated,  \* the request as each setIsValid(true) left it
  events,     \* what the reader did to the request and the connection
  outstanding,  \* the reads issued on the connection and not completed
  fn          \* the state of a run of one function on its own

vars ==
  <<stream, wire, io, need, parser, request, result, parsed, writes, delivered,
    validated, events, outstanding, fn>>

\* The reads outstanding when the completion handler of one of them runs.
Completed == outstanding - 1

\* The size of m_read_buffer (declared outside src/; 8 KiB).
READ_BUFFER_SIZE == 8192

\* A read-some delivers up to MaxChunk octets, or all there is room for.
MaxChunk == 3

ReadSizes(avail) ==
  {n \in 0..Min(avail, READ_BUFFER_SIZE) : n <= MaxChunk \/ n = Min(avail, READ_BUFFER_SIZE)}

\* boost::asio::error values a read ends with.
ReadErrors == {"operation_aborted", "eof", "connection_reset"}

\* readContentBytes without a read error, in the order of the source: the
\* request and the events after each step (r, ev those before it).
CallHandler(r, ev) == [r |-> r, events |-> ev \o <<"handler">>]

\* A completion sequence that lets go of the post content once it is decoded.
PostParsedFreesContent(r, ev, post) ==
  CallHandler([r EXCEPT !.query_params = post.dict, !.post_content = <<>>],
              IF post.ok THEN ev ELSE ev \o <<"warn(POST)">>)

PostParsed(r, ev, post) ==
  CallHandler([r EXCEPT !.query_params = post.dict],
              IF post.ok THEN ev ELSE ev \o <<"warn(POST)">>)

\* A completion sequence that decodes the post content whatever its type.
ParsePostContentAlways(r, ev) ==
  PostParsed(r, ev \o <<"parseURLEncoded(POST)">>,
             parseURLEncoded(r.query_params, take(r.post_content, r.content_length)))

\* The post content is the content_length octets of the buffer.
ParsePostContent(r, ev) ==
  IF getHeader(r, HEADER_CONTENT_TYPE) = CONTENT_TYPE_URLENCODED
  THEN PostParsed(r, ev \o <<"parseURLEncoded(POST)">>,
                  parseURLEncoded(r.query_params, take(r.post_content, r.content_length)))
  ELSE CallHandler(r, ev)

\* A completion sequence that gives up the request when the query string
\* does not decode.
QueryStringFailedStops(r, ev, uri) ==
  IF uri.ok THEN ParsePostContent([r EXCEPT !.query_params = uri.dict], ev)
  ELSE CallHandler([r EXCEPT !.is_valid = FALSE], ev \o <<"warn(URI)">>)

QueryStringParsed(r, ev, uri) ==
  ParsePostContent([r EXCEPT !.query_params = uri.dict],
                   IF uri.ok THEN ev ELSE ev \o <<"warn(URI)">>)

ParseQueryString(r, ev) ==
  IF ~empty(r.query_string)
  THEN QueryStringParsed(r, ev \o <<"parseURLEncoded(URI)">>,
                         parseURLEncoded(r.query_params, r.query_string))
  ELSE ParsePostContent(r, ev)

\* m_http_request->setIsValid(true)
setIsValid(r) == [r EXCEPT !.is_valid = TRUE]

ContentBytesRead(r, ev) ==
  ParseQueryString(setIsValid(r), ev \o <<"setIsValid(true)">>)

\* A hand-over after which the reader reads on.
DeliverAndReadOn(done) ==
  /\ request' = done.r
  /\ events' = done.events
  /\ delivered' = Append(delivered, done.r)
  /\ io' = "read_some"
  /\ outstanding' = Completed + 1

\* The request is handed to m_request_handler; no read is outstanding.
Deliver(done) ==
  /\ request' = done.r
  /\ events' = done.events
  /\ delivered' = Append(delivered, done.r)
  /\ io' = "none"
  /\ outstanding' = Completed

\* A handleReadError that starts the read again instead of giving up.
handleReadErrorRetry(err) ==
  /\ events' = events \o <<"info(I/O error)", "finish">>
  /\ io' = "read_some"
  /\ outstanding' = Completed + 1
  /\ UNCHANGED <<stream, wire, need, parser, request, result, parsed, writes,
                 delivered, validated, fn>>

\* handleReadError: a log line, then m_tcp_conn->finish().
handleReadError(err) ==
  /\ events' = events \o <<IF err = "operation_aborted" THEN "info(shutting down)"
                           ELSE "info(I/O error)",
                           "finish">>
  /\ io' = "none"
  /\ outstanding' = Completed
  /\ UNCHANGED <<stream, wire, need, parser, request, result, parsed, writes,
                 delivered, validated, fn>>

\* The server starts the reader.
readRequest ==
  /\ io = "new"
  /\ io' = "read_some"
  /\ outstanding' = outstanding + 1
  /\ UNCHANGED <<stream, wire, need, parser, request, result, parsed, writes,
                 delivered, validated, events, fn>>

\* Content-Length as readHeaderBytes reads it.
ContentLength(r) ==
  IF hasHeader(r, HEADER_CONTENT_LENGTH)
  THEN strtoul(getHeader(r, HEADER_CONTENT_LENGTH))
  ELSE 0

\* A memcpy of all the octets left in the read buffer.
CopiedAll(left, content_length) == IF left > 0 THEN left ELSE 0

\* The octets memcpy moves from the read buffer into the post content
\* buffer: of the `left` octets after the headers, at most content_length.
Copied(left, content_length) == IF left > 0 THEN Min(left, content_length) ELSE 0

\* The branch of readHeaderBytes for a Content-Length that is not 0: q is
\* what parseRequestHeaders returned on the bytes_read octets buf, of which
\* `left` follow the headers.
ReadPostContent(q, buf, content_length, left) ==
  /\ request' = [q.r EXCEPT !.content_length = content_length,
                            !.post_content = take(drop(buf, q.consumed),
                                                  Copied(left, content_length))]
  /\ writes' = IF left > 0 THEN Append(writes, <<0, Copied(left, content_length)>>)
               ELSE writes
  /\ IF content_length - Copied(left, content_length) # 0
     THEN /\ io' = "read_exact"
          /\ need' = content_length - Copied(left, content_length)
          /\ outstanding' = Completed + 1
     ELSE /\ io' = "none"
          /\ need' = 0
          /\ outstanding' = Completed
  /\ UNCHANGED <<delivered, validated, events>>

\* A branch for finished headers that allocates the content buffer whatever
\* the content length is.
HeadersReadBuffered(q, buf, content_length) ==
  ReadPostContent(q, buf, content_length, size(buf) - q.consumed)

\* The branch of readHeaderBytes for headers that are finished and valid.
HeadersRead(q, buf, content_length) ==
  IF content_length = 0
  THEN /\ Deliver(ContentBytesRead(q.r, events))
       /\ validated' = Append(validated, setIsValid(q.r))
       /\ UNCHANGED <<need, writes>>
  ELSE ReadPostContent(q, buf, content_length, size(buf) - q.consumed)

\* An invalid request that also closes the connection.
HeadersInvalidFinish(q) ==
  /\ request' = [q.r EXCEPT !.is_valid = FALSE]
  /\ events' = events \o <<"setIsValid(false)", "handler", "finish">>
  /\ delivered' = Append(delivered, request')
  /\ io' = "none"
  /\ outstanding' = Completed
  /\ UNCHANGED <<need, writes, validated>>

\* The branch of readHeaderBytes for a request that is invalid.
HeadersInvalid(q) ==
  /\ request' = [q.r EXCEPT !.is_valid = FALSE]
  /\ events' = events \o <<"setIsValid(false)", "handler">>
  /\ delivered' = Append(delivered, request')
  /\ io' = "none"
  /\ outstanding' = Completed
  /\ UNCHANGED <<need, writes, validated>>

\* A branch for unfinished headers that issues no further read.
HeadersUnfinishedStops(q) ==
  /\ request' = q.r
  /\ io' = "none"
  /\ outstanding' = Completed
  /\ UNCHANGED <<need, writes, delivered, validated, events>>

\* The branch of readHeaderBytes for headers that are not finished:
\* readRequest() again.
HeadersUnfinished(q) ==
  /\ request' = q.r
  /\ io' = "read_some"
  /\ outstanding' = Completed + 1
  /\ UNCHANGED <<need, writes, delivered, validated, events>>

\* readHeaderBytes after parseRequestHeaders returned q on the octets buf.
HeaderBytesParsed(q, buf) ==
  /\ parser' = q.p
  /\ result' = q.res
  /\ parsed' = parsed + q.consumed
  /\ IF q.res = "true" THEN HeadersRead(q, buf, ContentLength(q.r))
     ELSE IF q.res = "false" THEN HeadersInvalid(q)
     ELSE HeadersUnfinished(q)

\* The read-some completes with bytes_read octets: readHeaderBytes.
readHeaderBytes ==
  /\ io = "read_some"
  /\ \E bytes_read \in ReadSizes(size(wire)) :
       /\ HeaderBytesParsed(parseRequestHeaders(parser, request, take(wire, bytes_read)),
                            take(wire, bytes_read))
       /\ wire' = drop(wire, bytes_read)
  /\ UNCHANGED <<stream, fn>>

\* The read-some completes with an error.
readHeaderBytesError ==
  /\ io = "read_some"
  /\ \E err \in ReadErrors : handleReadError(err)

\* The exact-length read completes with all its octets: readContentBytes.
readContentBytes ==
  /\ io = "read_exact"
  /\ size(wire) >= need
  /\ writes' = Append(writes, <<size(request.post_content), need>>)
  /\ Deliver(ContentBytesRead([request EXCEPT !.post_content = cat(@, take(wire, need))],
                              events))
  /\ validated' = Append(validated,
                         setIsValid([request EXCEPT !.post_content = cat(@, take(wire, need))]))
  /\ wire' = drop(wire, need)
  /\ need' = 0
  /\ UNCHANGED <<stream, parser, result, parsed, fn>>

\* The exact-length read completes with an error.
readContentBytesError ==
  /\ io = "read_exact"
  /\ \E err \in ReadErrors : handleReadError(err)

\* A reader as constructed, on a connection with nothing read.
NewReader ==
  /\ wire = stream
  /\ io = "new"
  /\ need = 0
  /\ parser = NewParser
  /\ request = NewRequest
  /\ result = "none"
  /\ parsed = 0
  /\ writes = <<>>
  /\ delivered = <<>>
  /\ validated = <<>>
  /\ events = <<>>
  /\ outstanding = 0

Init ==
  /\ stream \in {Requests[i] : i \in 1..Len(Requests)}
  /\ NewReader
  /\ fn = <<>>

Next ==
  \/ readRequest
  \/ readHeaderBytes
  \/ readHeaderBytesError
  \/ readContentBytes
  \/ readContentBytesError

Spec == Init /\ [][Next]_vars

(***************************************************************************)
(* The reader's handling of one request                                    *)
(***************************************************************************)
Count(ev, e) == Cardinality({i \in 1..Len(ev) : ev[i] = e})

Occurs(ev, e) == \E i \in 1..Len(ev) : ev[i] = e

\* A read ended with a transport error.
TransportError == Occurs(events, "finish")

\* The header block and content_length octets of body have been read.
RequestRead ==
  \/ result = "false"
  \/ result = "true" /\ size(request.post_content) = ContentLength(request)

\* The octets that follow the header terminator on the connection.
AfterHeaders == drop(stream, parsed)

\* C1: without a transport error the handler is invoked exactly once per
\* request: never twice, never zero times once the header block and the
\* content_length octets of body have been read, and only after is_valid was
\* set.
HandlerInvokedExactlyOnce ==
  /\ Len(delivered) <= 1
  /\ Count(events, "handler") = Len(delivered)
  /\ Occurs(events, "handler") =>
       /\ events[Len(events)] = "handler"
       /\ Occurs(events, "setIsValid(true)") \/ Occurs(events, "setIsValid(false)")
  /\ (~TransportError /\ RequestRead) => Len(delivered) = 1

\* C2: when the headers are accepted with content_length > 0 and the octets
\* left in the read buffer cover content_length, the reader copies the first
\* content_length of them, issues no read, and the handler receives the
\* request with is_valid = true.
ResidualCoversBody ==
  (result = "true" /\ request.content_length > 0
     /\ writes = <<<<0, request.content_length>>>>) =>
    /\ request.post_content = take(AfterHeaders, request.content_length)
    /\ io = "none"
    /\ request.is_valid
    /\ delivered = <<request>>

\* C3: after a read ended with a transport error, in the header phase or in
\* the body phase, the handler has not been and is not invoked, is_valid is
\* not set to true, finish() has been called exactly once and no read is
\* outstanding.
TransportErrorEndsRequest ==
  TransportError =>
    /\ delivered = <<>>
    /\ ~Occurs(events, "handler")
    /\ ~request.is_valid
    /\ ~Occurs(events, "setIsValid(true)")
    /\ Count(events, "finish") = 1
    /\ events[Len(events)] = "finish"
    /\ io = "none"

\* C3: a transport error ended the exact-length read of the body.
BodyReadFailed ==
  /\ TransportError
  /\ result = "true"
  /\ request.content_length > 0
  /\ Len(writes) = 1

\* C4: when parseRequestHeaders returns false the reader sets is_valid to
\* false and invokes the handler with the request; it issues no read, decodes
\* no form and does not call finish().
RejectDelivered ==
  result = "false" =>
    /\ ~request.is_valid
    /\ delivered = <<request>>
    /\ events = <<"setIsValid(false)", "handler">>
    /\ request.query_params = <<>>
    /\ io = "none"
    /\ need = 0

\* C4: a request with a query string and a bogus version has been rejected.
RejectedWithQueryString ==
  /\ result = "false"
  /\ ~empty(request.query_string)
  /\ delivered # <<>>

\* The i-th write into the post content buffer starts where the one before
\* it ended.
RECURSIVE Written(_, _)
Written(ws, i) == IF i = 0 THEN 0 ELSE Written(ws, i - 1) + ws[i][2]

\* C5: is_valid implies that parseRequestHeaders returned true and that the
\* post content buffer holds exactly the content_length octets that follow
\* the headers on the connection, written in order (first those left in the
\* read buffer, then those of the exact-length read); no write lands outside
\* the buffer of content_length octets.
BodyWrittenInWireOrder ==
  /\ \A i \in 1..Len(writes) :
       /\ writes[i][1] = Written(writes, i - 1)
       /\ writes[i][1] + writes[i][2] <= request.content_length
  /\ request.is_valid =>
       /\ result = "true"
       /\ request.content_length = ContentLength(request)
       /\ Written(writes, Len(writes)) = request.content_length
       /\ size(request.post_content) = request.content_length
       /\ request.post_content = take(AfterHeaders, request.content_length)

\* C5: a valid request whose body came in two writes.
BodyInTwoWrites ==
  /\ request.is_valid
  /\ Len(writes) = 2
  /\ writes[1][2] > 0
  /\ writes[2][2] > 0

\* C8: the body ceiling is honored: a request whose Content-Length is over
\* POST_CONTENT_MAX is delivered with is_valid = false, with no buffer
\* written and no read issued for the body, and one whose Content-Length is
\* exactly POST_CONTENT_MAX is accepted once its body is read.
BodyCeilingHonored ==
  /\ (result = "true" /\ ContentLength(request) > POST_CONTENT_MAX) =>
       /\ ~request.is_valid
       /\ delivered = <<request>>
       /\ io = "none"
       /\ need = 0
       /\ writes = <<>>
  /\ (RequestRead /\ ~TransportError /\ ContentLength(request) = POST_CONTENT_MAX) =>
       request.is_valid

(***************************************************************************)
(* parseRequestHeaders on a stream that arrives in parts                   *)
(***************************************************************************)
\* A call of parseRequestHeaders is given at most MaxFeed octets, or all
\* that is left of the stream.
MaxFeed == 3

\* s with its i-th octet replaced by c.
subst(s, i, c) == cat(push_back(take(s, i - 1), c), drop(s, i))

\* A header line that is continued, and a header without a value
ReqFolded ==
  str(<<"G", SP, "/", "a", "?", "q", SP, "H", "T", "T", "P", "/", "1", "2",
       ".", "0", "3", LF, CR, "A", ":", "b", CR, LF, SP, HT, "C", ":", CR,
       CR, "z">>)

\* The requests whose octets are damaged one at a time, and the octets that
\* take their place.
Damaged == <<ReqMinimalGet, ReqQuery, ReqFolded>>

Damage == {CR, LF, SP, NUL, ":"}

\* The streams fed: requests as they are, requests with one octet damaged.
Streams ==
  {Requests[i] : i \in {1, 2, 3, 4, 6, 7, 10, 12}}
    \cup {ReqFolded}
    \cup UNION {{subst(Damaged[i], k, c) : k \in 1..size(Damaged[i]), c \in Damage} :
                i \in 1..Len(Damaged)}

\* The reader's variables are those of a reader that has read nothing.
Idle == stream = <<>> /\ NewReader

InitFeed ==
  /\ Idle
  /\ \E input \in Streams :
       fn = [input |-> input, fed |-> 0, calls |-> 0, p |-> NewParser,
             r |-> NewRequest, res |-> "indeterminate", consumed |-> 0]

\* The state after parseRequestHeaders returned q on the next n octets.
Fed(n, q) ==
  [fn EXCEPT !.fed = @ + n, !.calls = Min(@ + 1, 2), !.p = q.p, !.r = q.r,
             !.res = q.res, !.consumed = @ + q.consumed]

\* One call of parseRequestHeaders on the next octets of the stream; no
\* call follows one that returned true or false.
Feed ==
  /\ fn.res = "indeterminate"
  /\ fn.fed < size(fn.input)
  /\ \E n \in 1..(size(fn.input) - fn.fed) :
       /\ n <= MaxFeed \/ n = size(fn.input) - fn.fed
       /\ fn' = Fed(n, parseRequestHeaders(fn.p, fn.r, take(drop(fn.input, fn.fed), n)))
  /\ UNCHANGED <<stream, wire, io, need, parser, request, result, parsed,
                 writes, delivered, validated, events, outstanding>>

SpecFeed == InitFeed /\ [][Feed]_vars

\* The fields parseRequestHeaders commits to the request.
Committed(r) ==
  <<r.method, r.resource, r.query_string, r.version_major, r.version_minor,
    r.headers>>

SameOutcome(a, b) ==
  /\ a.res = b.res
  /\ a.consumed = b.consumed
  /\ Committed(a.r) = Committed(b.r)

\* C6: the octets of a stream fed so far to parseRequestHeaders in parts,
\* one call per part and none after the first true or false, give the
\* outcome, the number of octets consumed and the committed fields that one
\* call on the same octets gives.
PartitionIndependent ==
  SameOutcome(fn, parseRequestHeaders(NewParser, NewRequest, take(fn.input, fn.fed)))

\* C6: a request with a header has been accepted over several calls.
AcceptedInParts ==
  /\ fn.calls = 2
  /\ fn.res = "true"
  /\ fn.r.headers # <<>>
  /\ fn.consumed < size(fn.input)

(***************************************************************************)
(* parseRequestHeaders on the four renderings of a line end                *)
(***************************************************************************)
\* A request has at most MaxHeaders header lines.
MaxHeaders == 2

\* The renderings of a line end.
LineEnds ==
  [CRLF |-> str(<<CR, LF>>), LF |-> str(<<LF>>), CR |-> str(<<CR>>),
   LFCR |-> str(<<LF, CR>>)]

Styles == DOMAIN LineEnds

\* The (name, value) header lines requests are made of.
HeaderLines ==
  {<<str(<<"H", "o", "s", "t">>), str(<<"x">>)>>,
   <<str(<<"A">>), str(<<"b", SP, "c", ":", "d">>)>>,
   <<HEADER_CONTENT_LENGTH, str(<<"0">>)>>}

\* The lists of at most n header lines.
RECURSIVE HeaderLists(_)
HeaderLists(n) ==
  IF n = 0 THEN {<<>>}
  ELSE HeaderLists(n - 1)
         \cup {Append(hs, h) : hs \in {l \in HeaderLists(n - 1) : Len(l) = n - 1},
                               h \in HeaderLines}

\* The well-formed requests rendered: method, resource, query string
\* (none if empty), the digits of the version, header lines.
LineRequests ==
  [method : {str(<<"G", "E", "T">>), str(<<"P">>)},
   resource : {str(<<"/", "a">>)},
   query_string : {<<>>, str(<<"k", "=", "v">>)},
   version : {str(<<"1", ".", "1">>), str(<<"1", "0", ".", "2">>)},
   headers : HeaderLists(MaxHeaders)]

\* The header lines hs, each as "name: value" and a line end.
RECURSIVE RenderHeaders(_, _, _)
RenderHeaders(hs, i, eol) ==
  IF i > Len(hs) THEN <<>>
  ELSE cat(cat(cat(cat(hs[i][1], str(<<":", SP>>)), hs[i][2]), eol),
           RenderHeaders(hs, i + 1, eol))

\* The octets of request q with every line end rendered as eol.
Render(q, eol) ==
  cat(cat(cat(cat(cat(cat(cat(cat(q.method, str(<<SP>>)), q.resource),
                          IF empty(q.query_string) THEN <<>>
                          ELSE cat(str(<<"?">>), q.query_string)),
                      str(<<SP, "H", "T", "T", "P", "/">>)),
                  q.version),
              eol),
          RenderHeaders(q.headers, 1, eol)),
      eol)

InitLines ==
  /\ Idle
  /\ \E q \in LineRequests : fn = [req |-> q, out |-> [s \in Styles |-> <<>>]]

\* parseRequestHeaders on one more rendering of the request.
ParseRendering ==
  /\ \E s \in Styles :
       /\ fn.out[s] = <<>>
       /\ fn' = [fn EXCEPT !.out[s] =
                   parseRequestHeaders(NewParser, NewRequest, Render(fn.req, LineEnds[s]))]
  /\ UNCHANGED <<stream, wire, io, need, parser, request, result, parsed,
                 writes, delivered, validated, events, outstanding>>

SpecLines == InitLines /\ [][ParseRendering]_vars

\* C9: every rendering of the line ends of a well-formed request (CRLF, bare
\* LF, bare CR, LFCR) is accepted, and all renderings commit the same
\* method, resource, query string, version and headers: those of the
\* request rendered.
LineEndsIndifferent ==
  \A s \in Styles :
    fn.out[s] # <<>> =>
      /\ fn.out[s].res = "true"
      /\ fn.out[s].r.method = fn.req.method
      /\ fn.out[s].r.resource = fn.req.resource
      /\ fn.out[s].r.query_string = fn.req.query_string
      /\ fn.out[s].r.headers = fn.req.headers
      /\ \A u \in Styles :
           fn.out[u] # <<>> => Committed(fn.out[u].r) = Committed(fn.out[s].r)

\* C9: a request with header lines and a two-digit version has been parsed
\* in its four renderings.
FourRenderingsParsed ==
  /\ \A s \in Styles : fn.out[s] # <<>> /\ fn.out[s].res = "true"
  /\ Len(fn.req.headers) = 2
  /\ fn.out["CR"].r.version_major = 10
  /\ fn.out["LFCR"].r.version_minor = 2

(***************************************************************************)
(* The ceilings of the character-parsed fields                             *)
(***************************************************************************)
\* A field is Slack octets under its ceiling at the least, Slack over at
\* the most.
Slack == 1

\* The fields with a ceiling.
Ceiling ==
  [method |-> METHOD_MAX, resource |-> RESOURCE_MAX, query_string |-> QUERY_STRING_MAX,
   header_name |-> HEADER_NAME_MAX, header_value |-> HEADER_VALUE_MAX,
   query_name |-> QUERY_NAME_MAX, query_value |-> QUERY_VALUE_MAX]

HeaderFields == {"method", "resource", "query_string", "header_name", "header_value"}

FormFields == {"query_name", "query_value"}

\* The octets fields are filled with.
Fill == {"A", "z", "7", "-", "~"}

\* The field under test: len octets, the first "/" in a resource.
FieldOf(field, len, c) ==
  IF field = "resource" THEN cat(str(<<"/">>), rep(c, len - 1)) ELSE rep(c, len)

\* The value of field f of a well-formed request whose field `field` is x.
Part(field, x, f, short) == IF field = f THEN x ELSE short

\* A well-formed request whose field `field` is x, the others short.
RequestWith(field, x) ==
  Render([method |-> Part(field, x, "method", str(<<"G">>)),
          resource |-> Part(field, x, "resource", str(<<"/">>)),
          query_string |-> Part(field, x, "query_string", str(<<"q">>)),
          version |-> str(<<"1", ".", "1">>),
          headers |-> <<<<Part(field, x, "header_name", str(<<"N">>)),
                          Part(field, x, "header_value", str(<<"v">>))>>>>],
         LineEnds["CRLF"])

\* The name and the value of a form whose field `field` is x.
FormWith(field, x) ==
  <<Part(field, x, "query_name", str(<<"n">>)), Part(field, x, "query_value", str(<<"v">>))>>

\* "name=value"
encodePair(pair) == cat(cat(pair[1], str(<<"=">>)), pair[2])

InitCeiling ==
  /\ Idle
  /\ \E field \in DOMAIN Ceiling, c \in Fill :
       \E len \in (Ceiling[field] - Slack)..(Ceiling[field] + Slack) :
         fn = [field |-> field, len |-> len, x |-> FieldOf(field, len, c), out |-> <<>>]

\* parseRequestHeaders on a request with the field.
parseLongHeaders ==
  /\ fn.out = <<>>
  /\ fn.field \in HeaderFields
  /\ fn' = [fn EXCEPT !.out = parseRequestHeaders(NewParser, NewRequest,
                                                   RequestWith(fn.field, fn.x))]
  /\ UNCHANGED <<stream, wire, io, need, parser, request, result, parsed,
                 writes, delivered, validated, events, outstanding>>

\* parseURLEncoded on a form with the field.
parseLongForm ==
  /\ fn.out = <<>>
  /\ fn.field \in FormFields
  /\ fn' = [fn EXCEPT !.out = parseURLEncoded(<<>>, encodePair(FormWith(fn.field, fn.x)))]
  /\ UNCHANGED <<stream, wire, io, need, parser, request, result, parsed,
                 writes, delivered, validated, events, outstanding>>

NextCeiling == parseLongHeaders \/ parseLongForm

SpecCeiling == InitCeiling /\ [][NextCeiling]_vars

\* The field as the parser committed it.
CommittedField(field, out) ==
  CASE field = "method" -> out.r.method
    [] field = "resource" -> out.r.resource
    [] field = "query_string" -> out.r.query_string
    [] field = "header_name" -> out.r.headers[1][1]
    [] field = "header_value" -> out.r.headers[1][2]
    [] field = "query_name" -> out.dict[1][1]
    [] field = "query_value" -> out.dict[1][2]

Accepted(field, out) == IF field \in FormFields THEN out.ok ELSE out.res = "true"

Rejected(field, out) == IF field \in FormFields THEN ~out.ok ELSE out.res = "false"

\* C7: an otherwise well-formed input whose field is as long as the field's
\* ceiling, or shorter, is accepted with the whole field committed; one
\* whose field is longer, by one octet or more, is rejected.
CeilingsExact ==
  fn.out # <<>> =>
    IF fn.len <= Ceiling[fn.field]
    THEN /\ Accepted(fn.field, fn.out)
         /\ CommittedField(fn.field, fn.out) = fn.x
         /\ size(CommittedField(fn.field, fn.out)) = fn.len
    ELSE Rejected(fn.field, fn.out)

\* C7: a query string of exactly QUERY_STRING_MAX octets has been accepted.
FieldAtCeilingAccepted ==
  /\ fn.out # <<>>
  /\ fn.field = "query_string"
  /\ fn.len = QUERY_STRING_MAX
  /\ fn.out.res = "true"
  /\ size(fn.out.r.query_string) = QUERY_STRING_MAX

(***************************************************************************)
(* parseURLEncoded on the encoding of a list of pairs                      *)
(***************************************************************************)
\* A list has at most MaxPairs pairs.
MaxPairs == 2

\* The names and values the pairs are made of.
FormNames ==
  {str(<<"a">>), str(<<"b", HIGH>>), str(<<"a", "=", "b">>), rep("n", QUERY_NAME_MAX),
   rep("n", QUERY_NAME_MAX + 1)}

FormValues ==
  {<<>>, str(<<"v", HIGH, SP>>), rep("x", QUERY_VALUE_MAX), rep("x", QUERY_VALUE_MAX + 1)}

\* The lists of at most n pairs.
RECURSIVE PairLists(_)
PairLists(n) ==
  IF n = 0 THEN {<<>>}
  ELSE PairLists(n - 1)
         \cup {Append(ps, <<name, value>>) :
                 ps \in {l \in PairLists(n - 1) : Len(l) = n - 1},
                 name \in FormNames, value \in FormValues}

\* The "name=value" of the pairs from the i-th on, joined by "&".
RECURSIVE encode(_, _)
encode(pairs, i) ==
  IF i > Len(pairs) THEN <<>>
  ELSE IF i = Len(pairs) THEN encodePair(pairs[i])
  ELSE cat(cat(encodePair(pairs[i]), str(<<"&">>)), encode(pairs, i + 1))

InitForm ==
  /\ Idle
  /\ \E pairs \in PairLists(MaxPairs) : fn = [pairs |-> pairs, out |-> <<>>]

\* parseURLEncoded, into an empty dictionary, on the encoding of the list.
decode ==
  /\ fn.out = <<>>
  /\ fn' = [fn EXCEPT !.out = parseURLEncoded(<<>>, encode(fn.pairs, 1))]
  /\ UNCHANGED <<stream, wire, io, need, parser, request, result, parsed,
                 writes, delivered, validated, events, outstanding>>

SpecForm == InitForm /\ [][decode]_vars

\* The pairs of a list, each as often as the list has it.
Multiset(ps) ==
  [x \in {ps[i] : i \in 1..Len(ps)} |-> Cardinality({i \in 1..Len(ps) : ps[i] = x})]

\* s has none of '=', '&' and the control octets.
Plain(s) == \A i \in 1..Len(s) : s[i][1] \notin {"=", "&"} /\ ~isControl(s[i][1])

\* Non-empty names; names and values without '=', '&' and control octets.
PlainPairs(ps) ==
  \A i \in 1..Len(ps) : ~empty(ps[i][1]) /\ Plain(ps[i][1]) /\ Plain(ps[i][2])

\* Names and values within the ceilings of the form decoder.
WithinCeilings(ps) ==
  \A i \in 1..Len(ps) :
    size(ps[i][1]) <= QUERY_NAME_MAX /\ size(ps[i][2]) <= QUERY_VALUE_MAX

\* parseURLEncoded returned true and the dictionary holds the list's pairs.
Decoded == fn.out.ok /\ Multiset(fn.out.dict) = Multiset(fn.pairs)

\* C10, as stated: for any list of pairs with non-empty names, whose names
\* and values have no '=', no '&' and no control octet, parseURLEncoded on
\* the encoding of the list returns true and inserts exactly the pairs of
\* the list.
FormRoundTrip == (fn.out # <<>> /\ PlainPairs(fn.pairs)) => Decoded

\* C10, amended: the same for the lists whose names are at most
\* QUERY_NAME_MAX octets long and whose values are at most QUERY_VALUE_MAX.
FormRoundTripWithinCeilings ==
  (fn.out # <<>> /\ PlainPairs(fn.pairs) /\ WithinCeilings(fn.pairs)) => Decoded

\* C10: a list with the same pair twice, a name and a value at their
\* ceilings, has been decoded.
DuplicatesDecoded ==
  /\ fn.out # <<>>
  /\ Len(fn.pairs) = 2
  /\ fn.pairs[1] = fn.pairs[2]
  /\ size(fn.pairs[1][1]) = QUERY_NAME_MAX
  /\ size(fn.pairs[1][2]) = QUERY_VALUE_MAX
  /\ Len(fn.out.dict) = 2

(***************************************************************************)
(* parseURLEncoded on arbitrary octets                                     *)
(***************************************************************************)
\* A form is made of at most MaxRuns runs of equal octets.
MaxRuns == 3

\* The runs forms are made of: short ones of every kind of octet, and runs
\* of "a" at and over the two ceilings.
FormRuns ==
  ({"a", "=", "&", HT, HIGH} \X {1, 2})
    \cup ({"a"} \X {QUERY_NAME_MAX, QUERY_NAME_MAX + 1, QUERY_VALUE_MAX,
                    QUERY_VALUE_MAX + 1})

\* The strings of at most n runs.
RECURSIVE RunLists(_)
RunLists(n) ==
  IF n = 0 THEN {<<>>}
  ELSE RunLists(n - 1)
         \cup {Append(s, run) : s \in {l \in RunLists(n - 1) : Len(l) = n - 1},
                                run \in FormRuns}

\* The forms decoded: the strings whose neighbouring runs differ, and some
\* longer ones.
Forms ==
  {s \in RunLists(MaxRuns) : \A j \in 2..Len(s) : s[j][1] # s[j - 1][1]}
    \cup {str(<<"a", "=", "1", "&", "&", "b", "=", "2">>),
          str(<<"&", "a", "=", "1">>),
          str(<<"a", "=", "1", "&", "b", "&">>),
          str(<<"a", "=", "b", "=", "c", "&", "d">>),
          cat(cat(rep("a", QUERY_NAME_MAX), str(<<"=", "b">>)), rep("a", QUERY_VALUE_MAX)),
          cat(cat(rep("a", QUERY_NAME_MAX), str(<<"b", "=", "b">>)), rep("a", 2)),
          cat(str(<<"n", "=", "=">>), rep("a", QUERY_VALUE_MAX))}

InitScan ==
  /\ Idle
  /\ \E buf \in Forms : fn = [buf |-> buf, out |-> <<>>]

\* parseURLEncoded, into an empty dictionary, on the octets.
scan ==
  /\ fn.out = <<>>
  /\ fn' = [fn EXCEPT !.out = parseURLEncoded(<<>>, fn.buf)]
  /\ UNCHANGED <<stream, wire, io, need, parser, request, result, parsed,
                 writes, delivered, validated, events, outstanding>>

SpecScan == InitScan /\ [][scan]_vars

\* The pairs of a form are its parts between '&'; j is the first run of a
\* pair if it is no '&' and the form starts there or a '&' comes before it.
PairStarts(buf) ==
  {j \in 1..Len(buf) : buf[j][1] # "&" /\ (j = 1 \/ buf[j - 1][1] = "&")}

\* The last run of the pair that starts at run j.
PairEnd(buf, j) ==
  CHOOSE k \in j..Len(buf) :
    /\ \A i \in j..k : buf[i][1] # "&"
    /\ k = Len(buf) \/ buf[k + 1][1] = "&"

\* The runs of '=' of the pair of runs j..k.
Equals(buf, j, k) == {i \in j..k : buf[i][1] = "="}

FirstEquals(buf, j, k) == CHOOSE i \in Equals(buf, j, k) : \A h \in Equals(buf, j, k) : i <= h

\* The octets of the name and of the value of the pair of runs j..k: the name
\* ends at the first '=', the value is what follows it.
NameSize(buf, j, k) ==
  IF Equals(buf, j, k) = {} THEN SizeRange(buf, j, k)
  ELSE SizeRange(buf, j, FirstEquals(buf, j, k) - 1)

ValueSize(buf, j, k) ==
  IF Equals(buf, j, k) = {} THEN 0
  ELSE SizeRange(buf, FirstEquals(buf, j, k), k) - 1

\* '=' or '&' met with an empty name: a '&' that starts the form or follows
\* a '&', a '=' that starts a pair.
EmptyName(buf) ==
  \/ \E j \in 1..Len(buf) : buf[j][1] = "&" /\ (j = 1 \/ buf[j][2] >= 2)
  \/ \E j \in PairStarts(buf) : buf[j][1] = "="

HasControl(buf) == \E j \in 1..Len(buf) : isControl(buf[j][1])

OverCeiling(buf) ==
  \E j \in PairStarts(buf) :
    \/ NameSize(buf, j, PairEnd(buf, j)) > QUERY_NAME_MAX
    \/ ValueSize(buf, j, PairEnd(buf, j)) > QUERY_VALUE_MAX

\* C11: parseURLEncoded returns false exactly when the octets have a '=' or
\* a '&' where the name is empty, a control octet, a name of more than
\* QUERY_NAME_MAX octets or a value of more than QUERY_VALUE_MAX; a '&' at
\* the end and a '=' inside a value do not make it return false.
RejectsExactly ==
  fn.out # <<>> =>
    (~fn.out.ok <=> (EmptyName(fn.buf) \/ HasControl(fn.buf) \/ OverCeiling(fn.buf)))

\* C11: "a=b=c&d" has been decoded; it has a '=' inside a value.
EqualsInValueAccepted ==
  /\ fn.out # <<>>
  /\ fn.buf = str(<<"a", "=", "b", "=", "c", "&", "d">>)
  /\ fn.out.ok
  /\ Len(fn.out.dict) = 2

(***************************************************************************)
(* The completion sequence                                                 *)
(***************************************************************************)
\* The form decoder failed on the query string or on the post content.
FormError == Occurs(events, "warn(URI)") \/ Occurs(events, "warn(POST)")

Urlencoded(r) == getHeader(r, HEADER_CONTENT_TYPE) = CONTENT_TYPE_URLENCODED

\* The pairs the decoder inserts from the octets s before it returns.
PairsOf(s) == parseURLEncoded(<<>>, s).dict

\* The pairs of the query string, then those of the post content of a
\* request whose Content-Type is that of a form.
MergedPairs(r) ==
  (IF empty(r.query_string) THEN <<>> ELSE PairsOf(r.query_string))
    \o (IF Urlencoded(r) THEN PairsOf(take(r.post_content, r.content_length)) ELSE <<>>)

\* C12: a form decoder that fails on the query string or on the post content
\* does not invalidate the request: the handler is invoked with is_valid =
\* true, query_params keeps the pairs inserted before the failing octet, and
\* the post content is decoded also after the query string failed.
FormErrorKeepsRequest ==
  FormError =>
    /\ request.is_valid
    /\ delivered = <<request>>
    /\ events[Len(events)] = "handler"
    /\ ~Occurs(events, "finish")
    /\ request.query_params = MergedPairs(request)
    /\ (Occurs(events, "warn(URI)") /\ Urlencoded(request)) =>
         Occurs(events, "parseURLEncoded(POST)")
    /\ stream = ReqBadForms => request.query_params = <<<<str(<<"k">>), str(<<"v">>)>>>>
    /\ stream = ReqBadFormsLate =>
         request.query_params = <<<<str(<<"a">>), str(<<"1">>)>>,
                                  <<str(<<"k">>), str(<<"v">>)>>>>

\* C12: the decoder failed on the query string and on the post content, each
\* after a pair.
BothFormsFailed ==
  /\ Occurs(events, "warn(URI)")
  /\ Occurs(events, "warn(POST)")
  /\ Len(request.query_params) = 2
  /\ Len(delivered) = 1

\* The steps of the completion sequence of request r, in order.
CompletionSequence(r) ==
  <<"setIsValid(true)">>
    \o (IF empty(r.query_string) THEN <<>> ELSE <<"parseURLEncoded(URI)">>)
    \o (IF Urlencoded(r) THEN <<"parseURLEncoded(POST)">> ELSE <<>>)
    \o <<"handler">>

IsWarning(e) == e \in {"warn(URI)", "warn(POST)"}

\* What the reader did, the warnings left out.
Steps == SelectSeq(events, LAMBDA e : ~IsWarning(e))

\* C13: on the success path is_valid is set to true, then the query string
\* is decoded if and only if it is not empty, then the post content is
\* decoded if and only if Content-Type equals CONTENT_TYPE_URLENCODED, then
\* the handler is invoked; the request the handler is given holds the pairs
\* of the query string followed by those of the post content, and the reader
\* does not change it afterwards.
CompletionInOrder ==
  request.is_valid =>
    /\ Steps = CompletionSequence(request)
    /\ delivered = <<request>>
    /\ request.query_params = MergedPairs(request)
    /\ io = "none"
    /\ stream = ReqQuery =>
         request.query_params = <<<<str(<<"a">>), str(<<"1">>)>>,
                                  <<str(<<"b">>), <<>>>>,
                                  <<str(<<"c">>), str(<<"2">>)>>>>

\* C13: a request with a query string, whose Content-Type is not quite that
\* of a form, has been completed.
NearlyFormCompleted ==
  /\ request.is_valid
  /\ stream = ReqNearlyForm
  /\ Len(request.query_params) = 1
  /\ size(request.post_content) = 3
  /\ Len(delivered) = 1

\* C14, as stated: no field of the request (method, resource, query string,
\* version, headers, query_params, content_length, post content) is changed
\* by the reader after is_valid has been set to true.
NothingMutatedOnceValid ==
  request.is_valid => (validated # <<>> /\ request = validated[1])

\* C14, amended: after is_valid has been set to true the reader changes
\* query_params only, by decoding the query string and the post content
\* before the handler is invoked, and nothing once the handler is invoked.
OnlyParamsMutatedOnceValid ==
  /\ Len(validated) <= 1
  /\ validated # <<>> => request.is_valid
  /\ request.is_valid =>
       /\ validated # <<>>
       /\ validated[1].is_valid
       /\ validated[1].query_params = <<>>
       /\ request = [validated[1] EXCEPT !.query_params = request.query_params]
       /\ delivered = <<request>>

\* C14: the request the handler was given has pairs it did not have when
\* is_valid was set to true.
DecodedAfterValid ==
  /\ request.is_valid
  /\ validated # <<>>
  /\ request.query_params # validated[1].query_params
  /\ request.post_content # <<>>
  /\ delivered = <<request>>

(***************************************************************************)
(* parseRequestHeaders on a stream that arrives octet by octet             *)
(***************************************************************************)
\* The streams parseRequestHeaders accepts in one call.
AcceptedStreams ==
  {s \in Streams : parseRequestHeaders(NewParser, NewRequest, s).res = "true"}

InitOctets ==
  /\ Idle
  /\ \E input \in AcceptedStreams :
       fn = [input |-> input, fed |-> 0, calls |-> 0, p |-> NewParser,
             r |-> NewRequest, res |-> "indeterminate", consumed |-> 0]

\* One call of parseRequestHeaders on the next octet of the stream; no call
\* follows one that returned true or false.
FeedOctet ==
  /\ fn.res = "indeterminate"
  /\ fn.fed < size(fn.input)
  /\ fn' = Fed(1, parseRequestHeaders(fn.p, fn.r, take(drop(fn.input, fn.fed), 1)))
  /\ UNCHANGED <<stream, wire, io, need, parser, request, result, parsed,
                 writes, delivered, validated, events, outstanding>>

SpecOctets == InitOctets /\ [][FeedOctet]_vars

\* C15: a prefix of a stream that parseRequestHeaders accepts in one call,
\* fed one octet per call, is never rejected: the calls return indeterminate
\* with every octet consumed, or the last one returns true with no more
\* octets consumed than were fed.
PrefixNeverRejected ==
  /\ fn.res # "false"
  /\ fn.res = "indeterminate" => fn.consumed = fn.fed
  /\ fn.res = "true" => fn.consumed <= fn.fed /\ fn.consumed >= fn.fed - 1

\* C15: a prefix has been accepted with its last octet left unconsumed.
PrefixAcceptedEarly ==
  /\ fn.res = "true"
  /\ fn.consumed = fn.fed - 1
  /\ fn.fed < size(fn.input)
  /\ fn.r.headers # <<>>

\* parseRequestHeaders by a second, fresh parser on the first k octets of
\* the stream.
Again(k) == parseRequestHeaders(NewParser, NewRequest, take(fn.input, k))

\* The octet the call that returned true looked at, and whether that call
\* left it unconsumed.
AcceptedOn == at(fn.input, fn.fed)

LeftUnconsumed == fn.res = "true" /\ fn.consumed = fn.fed - 1

\* C16, as stated: when parseRequestHeaders has returned true, a fresh
\* parser fed the octets consumed, and no more, returns true as well and
\* commits the same method, resource, query string, version and headers.
ConsumedReproduces == fn.res = "true" => SameOutcome(fn, Again(fn.consumed))

\* C16, amended: this holds when the call that returned true consumed the
\* octet it returned on.  The octet is left unconsumed only in
\* PARSE_EXPECTING_FINAL_NEWLINE, if it is no LF, and in
\* PARSE_EXPECTING_FINAL_CR, if it is no CR; then the octets consumed leave a
\* fresh parser indeterminate, with the same fields committed, and the
\* octets consumed and the octet after them make it return true with the
\* same outcome.
ExaminedReproduces ==
  fn.res = "true" =>
    IF LeftUnconsumed
    THEN /\ \/ fn.p.m_parse_state = "PARSE_EXPECTING_FINAL_NEWLINE" /\ AcceptedOn # LF
            \/ fn.p.m_parse_state = "PARSE_EXPECTING_FINAL_CR" /\ AcceptedOn # CR
         /\ Again(fn.consumed).res = "indeterminate"
         /\ Committed(Again(fn.consumed).r) = Committed(fn.r)
         /\ SameOutcome(fn, Again(fn.consumed + 1))
    ELSE /\ fn.consumed = fn.fed
         /\ SameOutcome(fn, Again(fn.consumed))

\* C16: the octets consumed by a parser that returned true on a doubled bare
\* line end make a fresh parser return true.
DoubledLineEndReproduced ==
  /\ fn.res = "true"
  /\ fn.consumed = fn.fed
  /\ fn.p.m_parse_state \in {"PARSE_EXPECTING_NEWLINE", "PARSE_EXPECTING_CR"}
  /\ Again(fn.consumed).res = "true"

(***************************************************************************)
(* What the parser and the request retain while the headers are read       *)
(***************************************************************************)
\* The header lines a client sends at most.
MaxLines == 3

\* The lengths of a field a client sends: short, at the ceiling and one
\* octet more.
Lengths(field) == {1, Ceiling[field], Ceiling[field] + 1}

\* The octets between the query string and the first header name.
VersionLine == cat(str(<<SP, "H", "T", "T", "P", "/", "1", ".", "1">>), LineEnds["CRLF"])

\* A client that sends a request field by field; `next` is the field it
\* sends next, `lines` the header lines it has sent.
InitRetain ==
  /\ Idle
  /\ fn = [next |-> "method", lines |-> 0, p |-> NewParser, r |-> NewRequest,
           res |-> "indeterminate", consumed |-> 0]

\* The state after parseRequestHeaders returned q.
Sent(next, lines, q) ==
  [next |-> next, lines |-> lines, p |-> q.p, r |-> q.r, res |-> q.res,
   consumed |-> fn.consumed + q.consumed]

\* One call of parseRequestHeaders on the octets of the field sent next and
\* the octets that separate it from the field before it.
SendField(field, before, c, next, lines) ==
  /\ fn.res = "indeterminate"
  /\ fn.next = field
  /\ \E n \in Lengths(field) :
       fn' = Sent(next, lines,
                  parseRequestHeaders(fn.p, fn.r, cat(before, FieldOf(field, n, c))))
  /\ UNCHANGED <<stream, wire, io, need, parser, request, result, parsed,
                 writes, delivered, validated, events, outstanding>>

SendMethod ==
  /\ fn.p.m_parse_state = "PARSE_METHOD_START"
  /\ SendField("method", <<>>, "G", "resource", 0)

SendResource ==
  /\ fn.p.m_parse_state = "PARSE_METHOD"
  /\ SendField("resource", str(<<SP>>), "a", "query_string", 0)

SendQueryString ==
  /\ fn.p.m_parse_state = "PARSE_URI_STEM"
  /\ SendField("query_string", str(<<"?">>), "q", "header_name", 0)

SendHeaderName ==
  /\ fn.lines < MaxLines
  /\ SendField("header_name", IF fn.lines = 0 THEN VersionLine ELSE LineEnds["CRLF"],
               "N", "header_value", fn.lines)

SendHeaderValue ==
  /\ fn.p.m_parse_state = "PARSE_HEADER_NAME"
  /\ SendField("header_value", str(<<":", SP>>), "v", "header_name", fn.lines + 1)

\* The call on the empty line that ends the headers.
SendEnd ==
  /\ fn.res = "indeterminate"
  /\ fn.next = "header_name"
  /\ fn.lines > 0
  /\ fn' = Sent("none", fn.lines,
                parseRequestHeaders(fn.p, fn.r, cat(LineEnds["CRLF"], LineEnds["CRLF"])))
  /\ UNCHANGED <<stream, wire, io, need, parser, request, result, parsed,
                 writes, delivered, validated, events, outstanding>>

NextRetain ==
  \/ SendMethod
  \/ SendResource
  \/ SendQueryString
  \/ SendHeaderName
  \/ SendHeaderValue
  \/ SendEnd

SpecRetain == InitRetain /\ [][NextRetain]_vars

\* The octets of the scratch strings of parser p.
ScratchSize(p) ==
  size(p.m_method) + size(p.m_resource) + size(p.m_query_string)
    + size(p.m_header_name) + size(p.m_header_value)

\* The octets of the header entries i, i + 1, ... of the request.
RECURSIVE HeadersSize(_, _)
HeadersSize(hs, i) ==
  IF i > Len(hs) THEN 0
  ELSE size(hs[i][1]) + size(hs[i][2]) + HeadersSize(hs, i + 1)

\* The octets parseRequestHeaders has committed to request r.
CommittedSize(r) ==
  size(r.method) + size(r.resource) + size(r.query_string) + HeadersSize(r.headers, 1)

\* The sum of the ceilings of the header phase.
HeaderPhaseCeilings ==
  METHOD_MAX + RESOURCE_MAX + QUERY_STRING_MAX + HEADER_NAME_MAX + HEADER_VALUE_MAX

\* C17: in every reachable state the octets retained in the scratch strings
\* and in the fields and headers committed to the request are together at
\* most the sum of the ceilings of the header phase, however many header
\* lines were sent.
RetainedWithinCeilings ==
  ScratchSize(fn.p) + CommittedSize(fn.r) <= HeaderPhaseCeilings

\* C19: in every reachable state each scratch string is within its ceiling,
\* the states in which parseRequestHeaders has returned false included.
ScratchWithinCeilings ==
  /\ size(fn.p.m_method) <= METHOD_MAX
  /\ size(fn.p.m_resource) <= RESOURCE_MAX
  /\ size(fn.p.m_query_string) <= QUERY_STRING_MAX
  /\ size(fn.p.m_header_name) <= HEADER_NAME_MAX
  /\ size(fn.p.m_header_value) <= HEADER_VALUE_MAX

\* C19: a header value of one octet more than its ceiling was sent and
\* rejected, with the scratch string at the ceiling.
RejectedAtCeiling ==
  /\ fn.res = "false"
  /\ fn.p.m_parse_state = "PARSE_HEADER_VALUE"
  /\ size(fn.p.m_header_value) = HEADER_VALUE_MAX
  /\ fn.lines > 1

(***************************************************************************)
(* Where the octets consumed end                                           *)
(***************************************************************************)
\* Octets j - 1 and j of stream s are a line end of two octets.
LineEndAt(s, j) ==
  /\ j >= 2
  /\ <<at(s, j - 1), at(s, j)>> \in {<<CR, LF>>, <<LF, CR>>}

\* The first k octets of s end with `last` doubled.
DoubledAt(s, k, last) == k >= 2 /\ at(s, k) = last /\ at(s, k - 1) = last

\* The first k octets of s end with a line end of two octets, `first` and
\* `closing`.
ClosedAt(s, k, first, closing) ==
  k >= 4 /\ at(s, k) = closing /\ at(s, k - 1) = first /\ LineEndAt(s, k - 2)

\* The first k octets of s end with a line end of two octets and `first`,
\* and of the fed octets of s one that is not `closing` follows them.
OpenAt(s, k, fed, first, closing) ==
  /\ k >= 3 /\ at(s, k) = first /\ LineEndAt(s, k - 1)
  /\ k < fed /\ at(s, k + 1) # closing

\* C18: when parseRequestHeaders has returned true the octets consumed are
\* among the octets fed, and they end where the headers end: with the second
\* CR in PARSE_EXPECTING_NEWLINE and the second LF in PARSE_EXPECTING_CR;
\* in PARSE_EXPECTING_FINAL_NEWLINE with the LF after a line end and CR, or
\* with that CR if the octet after it is no LF, which is then not consumed;
\* likewise with CR for LF in PARSE_EXPECTING_FINAL_CR.  What was fed beyond
\* them is what follows the end of the headers.
ConsumedEndsAtTerminator ==
  fn.res = "true" =>
    /\ fn.consumed >= 0 /\ fn.consumed <= fn.fed
    /\ CASE fn.p.m_parse_state = "PARSE_EXPECTING_NEWLINE" ->
              DoubledAt(fn.input, fn.consumed, CR)
         [] fn.p.m_parse_state = "PARSE_EXPECTING_CR" ->
              DoubledAt(fn.input, fn.consumed, LF)
         [] fn.p.m_parse_state = "PARSE_EXPECTING_FINAL_NEWLINE" ->
              \/ ClosedAt(fn.input, fn.consumed, CR, LF)
              \/ OpenAt(fn.input, fn.consumed, fn.fed, CR, LF)
         [] fn.p.m_parse_state = "PARSE_EXPECTING_FINAL_CR" ->
              \/ ClosedAt(fn.input, fn.consumed, LF, CR)
              \/ OpenAt(fn.input, fn.consumed, fn.fed, LF, CR)
         [] OTHER -> FALSE

\* C18: a call returned true in PARSE_EXPECTING_FINAL_NEWLINE on an octet
\* that is no LF, fed in one buffer with the octets before it, and left it
\* unconsumed.
TerminatorLeftOpen ==
  /\ fn.res = "true"
  /\ fn.p.m_parse_state = "PARSE_EXPECTING_FINAL_NEWLINE"
  /\ fn.calls = 1
  /\ fn.consumed = fn.fed - 1
  /\ OpenAt(fn.input, fn.consumed, fn.fed, CR, LF)

(***************************************************************************)
(* Headers that are not finished                                           *)
(***************************************************************************)
\* A step of readHeaderBytes in which parseRequestHeaders returned
\* indeterminate, and the octets that were read in it.
NeedMoreStep == io = "read_some" /\ events' = events /\ result' = "indeterminate"

BytesRead == size(wire) - size(wire')

\* C20: when parseRequestHeaders returns indeterminate it has consumed all
\* the octets read; the next call starts from the state and the scratch
\* strings this call left; readHeaderBytes issues one read-some again and
\* calls no handler.  A read of 0 octets ends so and leaves parser and
\* request as they were.
NeedMoreReadsOn ==
  [][NeedMoreStep =>
       /\ parsed' - parsed = BytesRead
       /\ parser' = parseRequestHeaders(parser, request, take(wire, BytesRead)).p
       /\ io' = "read_some"
       /\ delivered' = delivered
       /\ BytesRead = 0 => parser' = parser /\ request' = request]_vars

\* C20: the headers are not finished after some octets were read and
\* consumed, and a read-some is pending.
MoreHeadersAwaited ==
  /\ result = "indeterminate"
  /\ io = "read_some"
  /\ parsed > 0
  /\ parsed = size(stream) - size(wire)
  /\ parser.m_parse_state = "PARSE_HEADER_VALUE"

(***************************************************************************)
(* Finished headers without content                                        *)
(***************************************************************************)
\* A step of readHeaderBytes in which parseRequestHeaders returned true.
AcceptStep == io = "read_some" /\ result' = "true"

\* The events of the step.
StepEvents == SubSeq(events', Len(events) + 1, Len(events'))

\* C21: when parseRequestHeaders returns true and Content-Length is absent
\* or 0, readHeaderBytes creates no content buffer and copies nothing,
\* whatever was read after the headers; it issues no read; it runs
\* readContentBytes at once, so that in the same step is_valid is set and the
\* handler is called with the valid request.
NoContentCompletesAtOnce ==
  [][AcceptStep /\ ContentLength(request') = 0 =>
       /\ writes' = writes
       /\ request'.content_length = 0 /\ request'.post_content = <<>>
       /\ io' = "none" /\ need' = 0
       /\ StepEvents # <<>>
       /\ StepEvents[1] = "setIsValid(true)"
       /\ StepEvents[Len(StepEvents)] = "handler"
       /\ Count(StepEvents, "handler") = 1
       /\ delivered' = Append(delivered, request')
       /\ request'.is_valid]_vars

\* C21: a request with Content-Length 0 was delivered valid and without
\* content although octets after its headers had been read.
ResidualIgnored ==
  /\ Len(delivered) = 1
  /\ delivered[1].is_valid
  /\ hasHeader(request, HEADER_CONTENT_LENGTH)
  /\ ContentLength(request) = 0
  /\ delivered[1].post_content = <<>>
  /\ size(stream) - size(wire) > parsed

(***************************************************************************)
(* Header lines and the pairs they commit                                  *)
(***************************************************************************)
\* The header lines a client sends at most.
MaxFields == 2

\* The name of the i-th header line.
NameOf(i) == IF i % 2 = 1 THEN str(<<"N">>) ELSE str(<<"A", "b">>)

\* The white space a header line starts with, the octets between its colon
\* and its end, and its end.
Leads == {<<>>, str(<<SP, HT>>)}

AfterColon ==
  {<<>>, str(<<SP>>), str(<<"v">>), str(<<SP, "v">>), str(<<SP, SP, "v">>),
   str(<<"/", "x">>), str(<<SP, "/", "x">>)}

Terminators == {LineEnds["CRLF"], LineEnds["LF"], LineEnds["CR"]}

\* A parser that has read a request line; `sent` are the names, the octets
\* after the colon and the leading white space of the header lines sent, `mid` the headers of the
\* request when the last of them had been read up to its end.
InitFields ==
  /\ Idle
  /\ fn = [sent |-> <<>>, mid |-> <<>>,
           q |-> parseRequestHeaders(NewParser, NewRequest,
                                     cat(str(<<"G", SP, "/">>), VersionLine))]

\* parseRequestHeaders on the end of a header line, unless the call on the
\* line has returned false.
AtLineEnd(q, eol) ==
  IF q.res = "indeterminate" THEN parseRequestHeaders(q.p, q.r, eol) ELSE q

\* The state after the call on a header line returned q.
LineSent(name, text, lead, q, eol) ==
  [sent |-> Append(fn.sent, <<name, text, lead>>), mid |-> q.r.headers, q |-> AtLineEnd(q, eol)]

\* A header line arrives, then its end: one call of parseRequestHeaders on
\* each.
SendHeaderLine ==
  /\ fn.q.res = "indeterminate"
  /\ Len(fn.sent) < MaxFields
  /\ \E lead \in Leads, text \in AfterColon, eol \in Terminators :
       fn' = LineSent(NameOf(Len(fn.sent) + 1), text, lead,
                      parseRequestHeaders(fn.q.p, fn.q.r,
                                          cat(cat(cat(lead, NameOf(Len(fn.sent) + 1)),
                                                  str(<<":">>)), text)),
                      eol)
  /\ UNCHANGED <<stream, wire, io, need, parser, request, result, parsed,
                 writes, delivered, validated, events, outstanding>>

SpecFields == InitFields /\ [][SendHeaderLine]_vars

\* The octets after the colon without one leading SP.
ValueOf(text) == IF text # <<>> /\ at(text, 1) = SP THEN drop(text, 1) ELSE text

\* The pairs of the first n header lines sent.
Pairs(n) == [i \in 1..n |-> <<fn.sent[i][1], ValueOf(fn.sent[i][2])>>]

\* The octet after the colon is SP, a line end or a token octet.
StartsValue(text) == text = <<>> \/ at(text, 1) = SP \/ ~NotToken(at(text, 1))

Finished == Occurs(events, "handler") \/ Occurs(events, "finish")

\* C23: at most one read is outstanding on the connection: the read-some
\* of the headers or the exact-length read of the content, never both; once
\* the handler or finish() has been called none is outstanding, so that
\* none is issued afterwards.
OneReadOutstanding ==
  /\ outstanding \in {0, 1}
  /\ outstanding = 1 <=> io \in {"read_some", "read_exact"}
  /\ Finished => outstanding = 0 /\ io = "none"

\* C23: the exact-length read was issued and completed, and the handler was
\* called.
ContentReadCompleted ==
  /\ Occurs(events, "handler")
  /\ Len(writes) = 2
  /\ outstanding = 0

(***************************************************************************)
(* What the committed fields are made of                                   *)
(***************************************************************************)
\* The octets that take the place of one octet of a request.
Injected == {CR, LF, NUL, HT, DEL, HIGH, SP, ":", "(", "x"}

Tampered ==
  {ReqFolded, ReqQuery}
    \cup {subst(ReqFolded, k, c) : k \in 1..size(ReqFolded), c \in Injected}
    \cup {subst(ReqQuery, k, c) : k \in 1..size(ReqQuery), c \in Injected}

InitInject ==
  /\ Idle
  /\ \E input \in Tampered : fn = [input |-> input, out |-> <<>>]

\* One call of parseRequestHeaders on the whole stream.
parseTampered ==
  /\ fn.out = <<>>
  /\ fn' = [fn EXCEPT !.out = parseRequestHeaders(NewParser, NewRequest, fn.input)]
  /\ UNCHANGED <<stream, wire, io, need, parser, request, result, parsed,
                 writes, delivered, validated, events, outstanding>>

SpecInject == InitInject /\ [][parseTampered]_vars

\* Every octet of s is a token octet; no octet of s is a control octet.
AllToken(s) ==
  \A i \in 1..Len(s) : isChar(s[i][1]) /\ ~isControl(s[i][1]) /\ ~isSpecial(s[i][1])

NoControl(s) == \A i \in 1..Len(s) : ~isControl(s[i][1])

\* The parser has committed the method.
MethodCommitted(p) == p.m_parse_state \notin {"PARSE_METHOD_START", "PARSE_METHOD"}

\* The fields of request r, committed by parser p, are well-formed.
WellFormed(p, r) ==
  /\ AllToken(r.method)
  /\ MethodCommitted(p) => r.method # <<>>
  /\ NoControl(r.resource)
  /\ NoControl(r.query_string)
  /\ \A i \in 1..Len(r.headers) :
       /\ r.headers[i][1] # <<>>
       /\ AllToken(r.headers[i][1])
       /\ NoControl(r.headers[i][2])

\* C24: whatever octets arrive, the method and every header name committed
\* to the request are non-empty and made of token octets, and the resource,
\* the query string and every header value committed hold no control octet.
CommittedWellFormed == fn.out # <<>> => WellFormed(fn.out.p, fn.out.r)

\* C24: a CR in the place of the one octet of a header value has committed
\* the header with an empty value and ended the headers.
LineEndInjected ==
  /\ fn.out # <<>>
  /\ fn.input = subst(ReqFolded, 22, CR)
  /\ fn.out.res = "true"
  /\ fn.out.r.headers = <<<<str(<<"A">>), <<>>>>>>

(***************************************************************************)
(* PionPlugin handles and their assignment                                 *)
(***************************************************************************)
\* The stack frames a thread has room for.
MaxFrames == 4

\* The PionPluginData objects, and the references other handles hold to one
\* of them at most.
PluginData == {"a", "b"}

NULL == "NULL"

Others == 0..1

\* m_references of PionPluginData d when the handles `target` and `source`
\* and n other handles point to it.
References(d, target, source, n) ==
  n + (IF target = d THEN 1 ELSE 0) + (IF source = d THEN 1 ELSE 0)

\* Two handles, `target` and `source` (their m_plugin_data), before
\* target = source; pc is where the thread is, frames the calls of
\* PionPluginPtr::operator= on its stack.
InitPlugin ==
  /\ Idle
  /\ \E target \in PluginData \cup {NULL}, source \in PluginData \cup {NULL},
        n \in [PluginData -> Others] :
       fn = [target |-> target, source |-> source,
             m_references |-> [d \in PluginData |-> References(d, target, source, n[d])],
             pc |-> "main", frames |-> 0]

\* PionPlugin::releaseData, then a reference to the data of p (declared in
\* the header; the bodies are outside src/).
releaseData(refs, data) ==
  IF data = NULL THEN refs ELSE [refs EXCEPT ![data] = @ - 1]

grabData(refs, data, p) ==
  IF p = NULL THEN releaseData(refs, data)
  ELSE [releaseData(refs, data) EXCEPT ![p] = @ + 1]

\* PionPlugin::operator=: grabData(p); return *this.
PionPluginAssign ==
  /\ fn.pc = "main"
  /\ fn' = [fn EXCEPT !.m_references = grabData(fn.m_references, fn.target, fn.source),
                      !.target = fn.source,
                      !.pc = "returned"]
  /\ UNCHANGED <<stream, wire, io, need, parser, request, result, parsed,
                 writes, delivered, validated, events, outstanding>>

\* PionPluginPtr::operator= is called: return(*this = p).
PionPluginPtrAssign ==
  /\ fn.pc = "main"
  /\ fn' = [fn EXCEPT !.pc = "PionPluginPtr::operator=", !.frames = 1]
  /\ UNCHANGED <<stream, wire, io, need, parser, request, result, parsed,
                 writes, delivered, validated, events, outstanding>>

\* *this = p in PionPluginPtr::operator=: both sides are PionPluginPtr, the
\* operator called is PionPluginPtr::operator= again.
AssignAgain ==
  /\ fn.pc = "PionPluginPtr::operator="
  /\ fn.frames < MaxFrames
  /\ fn' = [fn EXCEPT !.frames = @ + 1]
  /\ UNCHANGED <<stream, wire, io, need, parser, request, result, parsed,
                 writes, delivered, validated, events, outstanding>>

\* No room for one more frame: the process ends.
StackOverflow ==
  /\ fn.pc = "PionPluginPtr::operator="
  /\ fn.frames = MaxFrames
  /\ fn' = [fn EXCEPT !.pc = "crashed"]
  /\ UNCHANGED <<stream, wire, io, need, parser, request, result, parsed,
                 writes, delivered, validated, events, outstanding>>

\* A build that turns the call in tail position into a jump: the thread
\* stays in the operator with the frames it has.
TailCall ==
  /\ fn.pc = "PionPluginPtr::operator="
  /\ fn' = [fn EXCEPT !.pc = "looping"]
  /\ UNCHANGED <<stream, wire, io, need, parser, request, result, parsed,
                 writes, delivered, validated, events, outstanding>>

\* A build that takes the recursion without end for unreachable: the
\* operator returns, nothing assigned.
ReturnUnassigned ==
  /\ fn.pc = "PionPluginPtr::operator="
  /\ fn' = [fn EXCEPT !.pc = "returned", !.frames = 0]
  /\ UNCHANGED <<stream, wire, io, need, parser, request, result, parsed,
                 writes, delivered, validated, events, outstanding>>

NextPlugin ==
  \/ PionPluginAssign
  \/ PionPluginPtrAssign
  \/ AssignAgain
  \/ StackOverflow
  \/ TailCall
  \/ ReturnUnassigned

SpecPlugin == InitPlugin /\ [][NextPlugin]_vars /\ WF_vars(NextPlugin)

\* C25: an assignment with PionPluginPtr::operator= returns, and then the
\* target points to the data of the source, with the references
\* PionPlugin::operator= leaves.
PluginPtrAssigned ==
  fn.pc = "PionPluginPtr::operator="
    ~> /\ fn.pc = "returned"
       /\ fn.target = fn.source
       /\ \A d \in PluginData :
            fn.m_references[d] >= References(d, fn.target, fn.source, 0)

=============================================================================
